---- MODULE Spec2Model ----
(***************************************************************************)
(* Host side of remote-brain: the StreamingRelay (apps/host/src/relay/     *)
(* relay.ts), its ConcurrencyGate (apps/host/src/concurrency/gate.ts) and  *)
(* the OllamaAdapter it drives (apps/host/src/ollama/adapter.ts).          *)
(*                                                                         *)
(* The Host runs on a JavaScript event loop.  Every action below is one    *)
(* callback run to completion: a socket 'data' frame handler, a socket     *)
(* 'close'/'error' handler, a timer, or the continuation of the adapter's  *)
(* generate() coroutine after one of its awaits.  A generate() coroutine   *)
(* whose controller was aborted resumes in its catch block only after the  *)
(* synchronous code that called abort() has returned; the frames of one    *)
(* inbound chunk are dispatched by the decoder in one synchronous loop, so *)
(* further frames of the same socket may be handled before that catch      *)
(* block runs, and nothing else may.                                       *)
(*                                                                         *)
(* What the Host puts on the wire is observed through `written` (the       *)
(* socket.write calls of the step just taken) and through three monitors   *)
(* that summarise all earlier writes: first, infos and wire.               *)
(*                                                                         *)
(* The Client's protocol driver (ProtocolClient) is modelled on its own,   *)
(* with the lines it hands to its transport and the events it surfaces.    *)
(***************************************************************************)
EXTENDS Integers, Sequences, FiniteSets, TLC

\* ------------------------------------------------------------------ bounds
NumSockets == 2
MaxGens == 2
MaxReuseGens == 3
MaxChunks == 1
MaxStreamChunks == 2
MaxGateOps == 3
MaxPeers == 6
MaxStarts == 2
MaxStops == 2
MaxMsgs == 2
MaxText == 2

\* --------------------------------------------------------------- constants
MAX_PROMPT_SIZE == 8192

NULL == "NULL"
NoSocket == 0
Peers == 1..MaxPeers

Sockets == 1..NumSockets
\* request ids a peer may put on the wire; the relay applies no validation,
\* so the empty string is one of them
RequestIds == {"", "r1"}
\* prompt.length values offered by peers
PromptLengths == {1, MAX_PROMPT_SIZE + 1}

FetchErrorCodes == {"OLLAMA_NOT_FOUND"}
HttpErrorCodes == {"OLLAMA_MODEL_NOT_AVAILABLE"}

VARIABLES
  sock,             \* socket -> "new" (not yet offered) | "open" | "destroyed" | "closed"
  gate,             \* ConcurrencyGate.activeRequestId
  socketMap,        \* StreamingRelay.socketMap (NULL = no entry)
  abortControllers, \* OllamaAdapter.abortControllers: request id -> generation (0 = no entry)
  gens,             \* generate() invocations, in call order
  rejected,         \* generations whose pending await was rejected with AbortError
  chunkSock,        \* socket whose 'data' callback issued the pending abort
  written,          \* socket.write calls of the last step: <<socket, frame>>, in order
  first,            \* socket -> type of the first frame ever written to it
  infos,            \* socket -> number of server_info frames written to it
  wire,             \* socket -> request id -> "idle" | "open" | "ended"
  handled,          \* the callback the last step ran, with its socket and request id
  gateRet,          \* value returned by the last gate operation (gate harness)
  gateTrace,        \* gate operations applied so far (gate harness)
  probe,            \* the prompt under test and the validator's verdict on it
  infoTimer,        \* socket -> sendServerInfo's `delivered` and `timeout`
  server,           \* SwarmServer's fields, its Hyperswarm instances and pending calls
  peers,            \* the peer sockets that have connected so far, in order, with
                    \* the config callbacks called for them
  codec,            \* one decoder, the messages sent to it and what it delivered
  config,           \* StreamingRelay.config: hostName and model
  app,              \* HostApp as the relay's observer: what the tray shows and the
                    \* calls of onOllamaUnreachable so far; <<>> for a relay
                    \* constructed without observers
  client            \* a ProtocolClient with its transport and handlers

vars == <<sock, gate, socketMap, abortControllers, gens, rejected, chunkSock,
          written, first, infos, wire, handled, gateRet, gateTrace, probe,
          infoTimer, server, peers, codec, config, app, client>>

\* what the relay and the adapter never touch
benchVars == <<probe, server, peers, codec, config, client>>
\* what only handleConnection and the server_info timer touch besides

sideVars == <<gateRet, gateTrace, benchVars, infoTimer>>

\* ------------------------------------------------------------------ frames
Frame(t, r, a, n) == [type |-> t, request_id |-> r, arg |-> a, n |-> n]

\* payload: host_name and model from the relay's config, and the status
ServerInfoMessage(status) ==
  [type |-> "server_info", request_id |-> NULL, arg |-> status, n |-> 0,
   host_name |-> config.hostName, model |-> config.model]

ChatChunkMessage(r, n) == Frame("chat_chunk", r, "text", n)

ChatEndMessage(r, reason) == Frame("chat_end", r, reason, 0)

createErrorMessage(code, r) == Frame("error", r, code, 0)

\* --------------------------------------------------------- ConcurrencyGate
\* faulty variant of acquire: a held slot is handed to the newcomer
acquireSteal(slot, id) == [ok |-> TRUE, slot |-> id]

acquire(slot, id) ==
  IF slot # NULL
    THEN [ok |-> FALSE, slot |-> slot]
    ELSE [ok |-> TRUE, slot |-> id]

\* faulty variant of release: the id is not compared with the holder
releaseAny(slot, id) == NULL

release(slot, id) == IF slot = id THEN NULL ELSE slot

isBusy(slot) == slot # NULL

getActiveRequest(slot) == slot

forceRelease(slot) == NULL

\* ------------------------------------------------------ HostApp's observers
\* TrayMenu.setState(state)
setState(a, state) == IF a = <<>> THEN a ELSE << [a[1] EXCEPT !.state = state] >>

\* HostApp.updateState with the gate as it is at the call
updateState(a, slot) ==
  IF a = <<>> THEN a
  ELSE setState(a, IF server.swarm = 0 THEN "stopped"
                   ELSE IF isBusy(slot) THEN "busy" ELSE "ready")

\* config.onStateChange, if the relay was given one
onStateChange(a, slot) == updateState(a, slot)

\* config.onOllamaUnreachable, if the relay was given one
onOllamaUnreachable(a) ==
  IF a = <<>> THEN a
  ELSE << [a[1] EXCEPT !.state = "error", !.unreachable = @ + 1] >>

\* ----------------------------------------------------------- wire monitors
\* codes with which the relay itself turns a chat_start down
RejectCodes == {"BAD_MESSAGE", "MODEL_BUSY"}

\* a frame that closes request f.request_id on the wire
IsTerminal(f) ==
  \/ f.type = "chat_end"
  \/ f.type = "error" /\ f.request_id # NULL /\ f.arg \notin RejectCodes

RECURSIVE WireAfter(_, _)
WireAfter(w, ws) ==
  IF ws = <<>> THEN w
  ELSE LET s == Head(ws)[1]
           f == Head(ws)[2]
       IN WireAfter(IF IsTerminal(f) THEN [w EXCEPT ![s][f.request_id] = "ended"] ELSE w,
                    Tail(ws))

FramesTo(ws, s) == SelectSeq(ws, LAMBDA e : e[1] = s)

\* the step writes the frames ws and accepts the chat_starts in `accepted`
\* (pairs <<socket, request id>>)
Seen(ws, accepted) ==
  /\ written' = ws
  /\ first' = [s \in Sockets |->
                 IF first[s] = NULL /\ FramesTo(ws, s) # <<>>
                   THEN Head(FramesTo(ws, s))[2].type
                   ELSE first[s]]
  /\ infos' = [s \in Sockets |->
                 infos[s] + Len(SelectSeq(FramesTo(ws, s),
                                          LAMBDA e : e[2].type = "server_info"))]
  /\ wire' = WireAfter([s \in Sockets |-> [r \in RequestIds |->
                           IF <<s, r>> \in accepted THEN "open" ELSE wire[s][r]]], ws)

\* a step that calls none of the relay's observers
Observe(ws, accepted) ==
  /\ Seen(ws, accepted)
  /\ UNCHANGED app

\* ------------------------------------------------------------------- Init
Callback(op, s, r) == [op |-> op, sock |-> s, rid |-> r]

\* a prompt, by the number of its code points that UTF-8 encodes in 1, 2, 3 and
\* 4 bytes; the last kind takes two UTF-16 code units, the others one
Prompt(b1, b2, b3, b4) == [b1 |-> b1, b2 |-> b2, b3 |-> b3, b4 |-> b4]

\* String.prototype.length of the prompt
length(p) == p.b1 + p.b2 + p.b3 + 2 * p.b4

\* sendServerInfo's locals for one socket: `delivered`, and the state of
\* `timeout` (none, armed, cleared, fired); flushed: the write reached the
\* peer; destroyed: the timer callback called socket.destroy()
NoTimer == [delivered |-> FALSE, timer |-> "none", flushed |-> FALSE, destroyed |-> FALSE]

\* SwarmServer after construction: no Hyperswarm instance, no pending call
NoServer ==
  [swarm |-> 0, topic |-> 0, serverId |-> 0, connectedSockets |-> {},
   hyper |-> <<>>, calls |-> <<>>, stops |-> 0]

\* a peer's socket as it connects: nothing written to it, no callback called
NewPeer == [st |-> "open", onConnection |-> 0, onDisconnection |-> 0, written |-> <<>>]

\* a decoder just created and nothing to send to it
NoCodec ==
  [msgs |-> <<>>, rest |-> <<>>, buffer |-> <<>>, delivered |-> <<>>,
   signals |-> 0, writes |-> 0]

Void == [kind |-> "void", b |-> FALSE, id |-> NULL]

\* the relay and its gate as their constructors leave them, and no peer yet
Constructed ==
  /\ sock = [s \in Sockets |-> "new"]
  /\ gate = NULL
  /\ socketMap = [s \in Sockets |-> NULL]
  /\ abortControllers = [r \in RequestIds |-> 0]
  /\ gens = <<>>
  /\ rejected = <<>>
  /\ chunkSock = NoSocket
  /\ written = <<>>
  /\ first = [s \in Sockets |-> NULL]
  /\ infos = [s \in Sockets |-> 0]
  /\ wire = [s \in Sockets |-> [r \in RequestIds |-> "idle"]]
  /\ handled = Callback(NULL, NoSocket, NULL)
  /\ gateRet = Void
  /\ gateTrace = <<>>
  /\ infoTimer = [s \in Sockets |-> NoTimer]
  /\ peers = <<>>
  /\ config = [hostName |-> "host", model |-> "llama3.2"]

\* the relay alone: no SwarmServer, no decoder and no message under validation
\* has been created
Init ==
  /\ Constructed
  /\ probe = <<>>
  /\ server = <<>>
  /\ codec = <<>>
  /\ app = <<>>
  /\ client = <<>>

\* no generate() coroutine is waiting to resume in its catch block
Quiescent == rejected = <<>>

\* a frame of socket s can be dispatched now
CanReceive(s) ==
  /\ sock[s] = "open"
  /\ (Quiescent \/ chunkSock = s)

\* ------------------------------------------------------------ handleConnection
\* faulty variant of sendServerInfo: the gate is not consulted
sendServerInfoReady(s) ==
  /\ infoTimer' = [infoTimer EXCEPT ![s].timer = "armed"]
  /\ Seen(<< <<s, ServerInfoMessage("ready")>> >>, {})

sendServerInfo(s) ==
  /\ infoTimer' = [infoTimer EXCEPT ![s].timer = "armed"]
  /\ Seen(<< <<s, ServerInfoMessage(IF isBusy(gate) THEN "busy" ELSE "ready")>> >>, {})

\* faulty variant of writeCallback: the flush goes unnoticed
writeCallbackDeaf(i) == i

\* callback of socket.write(encode(message), ...)
writeCallback(i) == [i EXCEPT !.delivered = TRUE, !.timer = "cleared"]

\* the server_info write of socket s is flushed and its callback runs
WriteFlushed(s) ==
  /\ handled' = Callback("writeCallback", s, NULL)
  /\ Quiescent
  /\ sock[s] = "open"
  /\ ~infoTimer[s].flushed
  /\ infoTimer' = [infoTimer EXCEPT ![s] = writeCallback([@ EXCEPT !.flushed = TRUE])]
  /\ Observe(<<>>, {})
  /\ UNCHANGED <<sock, gate, socketMap, abortControllers, gens, rejected, chunkSock,
                 gateRet, gateTrace, benchVars>>

\* SERVER_INFO_TIMEOUT_MS after sendServerInfo its timer fires, unless cleared;
\* socket.destroy() on a socket already closed does nothing
InfoTimeout(s) ==
  /\ handled' = Callback("infoTimer", s, NULL)
  /\ Quiescent
  /\ infoTimer[s].timer = "armed"
  /\ infoTimer' = [infoTimer EXCEPT ![s].timer = "fired",
                                    ![s].destroyed = ~infoTimer[s].delivered]
  /\ sock' = [sock EXCEPT ![s] = IF ~infoTimer[s].delivered /\ @ = "open"
                                   THEN "destroyed" ELSE @]
  /\ Observe(<<>>, {})
  /\ UNCHANGED <<gate, socketMap, abortControllers, gens, rejected, chunkSock,
                 gateRet, gateTrace, benchVars>>

\* StreamingRelay.handleConnection, as config.onConnection calls it
onConnection(s) ==
  /\ handled' = Callback("handleConnection", s, NULL)
  /\ Quiescent
  /\ sock[s] = "new"
  /\ \A t \in Sockets : t < s => sock[t] # "new"
  /\ sock' = [sock EXCEPT ![s] = "open"]
  /\ sendServerInfo(s)
  /\ UNCHANGED <<gate, socketMap, abortControllers, gens, rejected, chunkSock,
                 gateRet, gateTrace>>

handleConnection(s) ==
  /\ onConnection(s)
  /\ UNCHANGED <<benchVars, app>>

\* ------------------------------------------------------------ OllamaAdapter
Pending == {"fetching", "streaming"}

\* faulty variant of abortReturn: the provider never confirms
abortReturnNever(rid) == FALSE

\* return value of OllamaAdapter.abort(requestId)
abortReturn(rid) == abortControllers[rid] # 0

\* OllamaAdapter.abort(requestId): controller.abort() and map delete.  Aborting
\* the controller of a generation that is still awaiting rejects that await.
abort(rid) ==
  LET g == abortControllers[rid]
      hit == g # 0 /\ gens[g].st \in Pending
  IN /\ abortControllers' = [abortControllers EXCEPT ![rid] = 0]
     /\ gens' = IF hit THEN [gens EXCEPT ![g].st = "aborted"] ELSE gens
     /\ rejected' = IF hit THEN Append(rejected, g) ELSE rejected

\* OllamaAdapter.generate up to its first await: a new controller replaces
\* whatever the map holds under requestId
generate(s, r) ==
  /\ gens' = Append(gens, [rid |-> r, sock |-> s, st |-> "fetching", n |-> 0])
  /\ abortControllers' = [abortControllers EXCEPT ![r] = Len(gens) + 1]

\* ------------------------------------------- callbacks built by handleChatStart
\* faulty variant of onChunk: the text goes to every connected socket
onChunkBroadcast(g) ==
  Observe(SelectSeq([s \in Sockets |-> <<s, ChatChunkMessage(gens[g].rid, gens[g].n + 1)>>],
                    LAMBDA e : sock[e[1]] = "open"), {})
onChunk(g) ==
  Observe(<< <<gens[g].sock, ChatChunkMessage(gens[g].rid, gens[g].n + 1)>> >>, {})

\* faulty variant of onEnd: the freed gate is announced with a second server_info
onEndAnnounce(g) ==
  /\ Seen(<< <<gens[g].sock, ChatEndMessage(gens[g].rid, "stop")>>,
             <<gens[g].sock, ServerInfoMessage("ready")>> >>, {})
  /\ gate' = release(gate, gens[g].rid)
  /\ socketMap' = [socketMap EXCEPT ![gens[g].sock] = NULL]
  /\ app' = onStateChange(app, gate')

onEnd(g) ==
  /\ Seen(<< <<gens[g].sock, ChatEndMessage(gens[g].rid, "stop")>> >>, {})
  /\ gate' = release(gate, gens[g].rid)
  /\ socketMap' = [socketMap EXCEPT ![gens[g].sock] = NULL]
  /\ app' = onStateChange(app, gate')

\* faulty variant of onError: the gate is left to its holder
onErrorKeepGate(g, code) ==
  /\ Seen(<< <<gens[g].sock, createErrorMessage(code, gens[g].rid)>> >>, {})
  /\ gate' = gate
  /\ socketMap' = [socketMap EXCEPT ![gens[g].sock] = NULL]
  /\ app' = onStateChange(IF code = "OLLAMA_NOT_FOUND"
                            THEN onOllamaUnreachable(app) ELSE app, gate')

onError(g, code) ==
  /\ Seen(<< <<gens[g].sock, createErrorMessage(code, gens[g].rid)>> >>, {})
  /\ gate' = release(gate, gens[g].rid)
  /\ socketMap' = [socketMap EXCEPT ![gens[g].sock] = NULL]
  /\ app' = onStateChange(IF code = "OLLAMA_NOT_FOUND"
                            THEN onOllamaUnreachable(app) ELSE app, gate')

\* ------------------------------------------------------------ handleChatStart
\* faulty variant of handleChatStart: the gate is taken without being asked
handleChatStartUngated(s, r, len) ==
  /\ handled' = Callback("handleChatStart", s, r)
  /\ CanReceive(s)
  /\ IF len > MAX_PROMPT_SIZE
       THEN /\ Observe(<< <<s, createErrorMessage("BAD_MESSAGE", r)>> >>, {})
            /\ UNCHANGED <<gate, socketMap, abortControllers, gens>>
       ELSE /\ gate' = r
            /\ socketMap' = [socketMap EXCEPT ![s] = r]
            /\ generate(s, r)
            /\ Seen(<<>>, {<<s, r>>})
            /\ app' = onStateChange(app, gate')
  /\ UNCHANGED <<sock, rejected, chunkSock, sideVars>>

handleChatStart(s, r, len) ==
  /\ handled' = Callback("handleChatStart", s, r)
  /\ CanReceive(s)
  /\ IF len > MAX_PROMPT_SIZE
       THEN /\ Observe(<< <<s, createErrorMessage("BAD_MESSAGE", r)>> >>, {})
            /\ UNCHANGED <<gate, socketMap, abortControllers, gens>>
       ELSE IF ~acquire(gate, r).ok
         THEN /\ Observe(<< <<s, createErrorMessage("MODEL_BUSY", r)>> >>, {})
              /\ UNCHANGED <<gate, socketMap, abortControllers, gens>>
         ELSE /\ gate' = acquire(gate, r).slot
              /\ socketMap' = [socketMap EXCEPT ![s] = r]
              /\ generate(s, r)
              /\ Seen(<<>>, {<<s, r>>})
              /\ app' = onStateChange(app, gate')
  /\ UNCHANGED <<sock, rejected, chunkSock, sideVars>>

\* ---------------------------------------------------------------- handleAbort
\* faulty variant of handleAbort: the session's own active request is not consulted
handleAbortAnySession(s, r) ==
  /\ handled' = Callback("handleAbort", s, r)
  /\ CanReceive(s)
  /\ IF abortReturn(r)
       THEN /\ abort(r)
            /\ gate' = release(gate, r)
            /\ socketMap' = [socketMap EXCEPT ![s] = NULL]
            /\ Observe(<< <<s, ChatEndMessage(r, "abort")>> >>, {})
            /\ chunkSock' = IF rejected' # <<>> THEN s ELSE chunkSock
       ELSE /\ Observe(<<>>, {})
            /\ UNCHANGED <<gate, socketMap, abortControllers, gens, rejected,
                           chunkSock>>
  /\ UNCHANGED <<sock, sideVars>>

handleAbort(s, r) ==
  /\ handled' = Callback("handleAbort", s, r)
  /\ CanReceive(s)
  /\ IF socketMap[s] = r /\ abortReturn(r)
       THEN /\ abort(r)
            /\ gate' = release(gate, r)
            /\ socketMap' = [socketMap EXCEPT ![s] = NULL]
            /\ Observe(<< <<s, ChatEndMessage(r, "abort")>> >>, {})
            /\ chunkSock' = IF rejected' # <<>> THEN s ELSE chunkSock
       ELSE /\ Observe(<<>>, {})
            /\ UNCHANGED <<gate, socketMap, abortControllers, gens, rejected,
                           chunkSock>>
  /\ UNCHANGED <<sock, sideVars>>

\* --------------------------------------------------------- handleDisconnection
\* `if (requestId)`: undefined and the empty string are both falsy
Truthy(requestId) == requestId # NULL /\ requestId # ""

\* faulty variant of handleDisconnection: the gate is left to the closed session
handleDisconnectionKeepGate(s) ==
  IF Truthy(socketMap[s])
    THEN /\ abort(socketMap[s])
         /\ gate' = gate
         /\ socketMap' = [socketMap EXCEPT ![s] = NULL]
    ELSE UNCHANGED <<gate, socketMap, abortControllers, gens, rejected>>

handleDisconnection(s) ==
  IF Truthy(socketMap[s])
    THEN /\ abort(socketMap[s])
         /\ gate' = release(gate, socketMap[s])
         /\ socketMap' = [socketMap EXCEPT ![s] = NULL]
    ELSE UNCHANGED <<gate, socketMap, abortControllers, gens, rejected>>

\* socket 'close' or 'error' event, forwarded by SwarmServer.  A socket that
\* emits both calls handleDisconnection twice with no frame of that socket in
\* between, and the second call finds what the first one left.
onDisconnection(s) ==
  /\ handled' = Callback("handleDisconnection", s, NULL)
  /\ Quiescent
  /\ sock[s] \in {"open", "destroyed"}
  /\ sock' = [sock EXCEPT ![s] = "closed"]
  /\ handleDisconnection(s)
  /\ Seen(<<>>, {})
  /\ UNCHANGED <<chunkSock, gateRet, gateTrace, infoTimer>>

SocketClose(s) ==
  /\ onDisconnection(s)
  /\ UNCHANGED <<benchVars, app>>

\* ------------------------------------------- generate() after its first await
\* the coroutine returns; its locals and closures are gone
Returned == [rid |-> NULL, sock |-> NoSocket, st |-> "done", n |-> 0]

Finish(g) == gens' = [gens EXCEPT ![g] = Returned]

\* fetch resolved with an ok response that has a body: the read loop starts and
\* the chunk timer is armed
FetchOk(g) ==
  /\ handled' = Callback("generate", NoSocket, NULL)
  /\ Quiescent
  /\ gens[g].st = "fetching"
  /\ gens' = [gens EXCEPT ![g].st = "streaming"]
  /\ Observe(<<>>, {})
  /\ UNCHANGED <<sock, gate, socketMap, abortControllers, rejected,
                 chunkSock, sideVars>>

\* fetch resolved with !response.ok, or without a body: onError and return;
\* the controller stays in the map
FetchHttpError(g, code) ==
  /\ handled' = Callback("generate", NoSocket, NULL)
  /\ Quiescent
  /\ gens[g].st = "fetching"
  /\ onError(g, code)
  /\ Finish(g)
  /\ UNCHANGED <<sock, abortControllers, rejected, chunkSock,
                 sideVars>>

\* fetch or reader.read() threw something other than AbortError
FetchFailed(g, code) ==
  /\ handled' = Callback("generate", NoSocket, NULL)
  /\ Quiescent
  /\ gens[g].st \in Pending
  /\ abortControllers' = [abortControllers EXCEPT ![gens[g].rid] = 0]
  /\ onError(g, code)
  /\ Finish(g)
  /\ UNCHANGED <<sock, rejected, chunkSock, sideVars>>

\* a line with a non-empty response
StreamChunk(g) ==
  /\ handled' = Callback("generate", NoSocket, NULL)
  /\ Quiescent
  /\ gens[g].st = "streaming"
  /\ onChunk(g)
  /\ gens' = [gens EXCEPT ![g].n = @ + 1]
  /\ UNCHANGED <<sock, gate, socketMap, abortControllers, rejected,
                 chunkSock, sideVars>>

\* a line with done = true, or the end of the body
StreamDone(g) ==
  /\ handled' = Callback("generate", NoSocket, NULL)
  /\ Quiescent
  /\ gens[g].st = "streaming"
  /\ onEnd(g)
  /\ abortControllers' = [abortControllers EXCEPT ![gens[g].rid] = 0]
  /\ Finish(g)
  /\ UNCHANGED <<sock, rejected, chunkSock, sideVars>>

\* the chunk timer fires: abortController.abort() on the generation's own controller
ChunkTimeout(g) ==
  /\ handled' = Callback("chunkTimer", NoSocket, NULL)
  /\ Quiescent
  /\ gens[g].st = "streaming"
  /\ gens' = [gens EXCEPT ![g].st = "aborted"]
  /\ rejected' = Append(rejected, g)
  /\ Observe(<<>>, {})
  /\ UNCHANGED <<sock, gate, socketMap, abortControllers,
                 chunkSock, sideVars>>

\* catch block of generate() for an AbortError
AbortCatch ==
  /\ handled' = Callback("generate", NoSocket, NULL)
  /\ rejected # <<>>
  /\ LET g == Head(rejected)
         wasTimeout == abortControllers[gens[g].rid] # 0
     IN /\ abortControllers' = [abortControllers EXCEPT ![gens[g].rid] = 0]
        /\ IF wasTimeout
             THEN onError(g, "TIMEOUT_NO_RESPONSE")
             ELSE /\ Observe(<<>>, {})
                  /\ UNCHANGED <<gate, socketMap>>
        /\ Finish(g)
  /\ rejected' = Tail(rejected)
  /\ chunkSock' = IF rejected' = <<>> THEN NoSocket ELSE chunkSock
  /\ UNCHANGED <<sock, sideVars>>

\* --------------------------------------------------------------------- Next
Gens == 1..Len(gens)

\* the peers have at most MaxGens chat_start frames accepted
MayOffer(r, len) ==
  (len <= MAX_PROMPT_SIZE /\ gate = NULL) => Len(gens) < MaxGens

\* the provider sends at most MaxChunks text lines per generation
MayChunk(g) == gens[g].n < MaxChunks

Next ==
  \/ \E s \in Sockets : handleConnection(s)
  \/ \E s \in Sockets, r \in RequestIds, len \in PromptLengths :
       MayOffer(r, len) /\ handleChatStart(s, r, len)
  \/ \E s \in Sockets, r \in RequestIds : handleAbort(s, r)
  \/ \E s \in Sockets : SocketClose(s)
  \/ \E g \in Gens : FetchOk(g)
  \/ \E g \in Gens, code \in HttpErrorCodes : FetchHttpError(g, code)
  \/ \E g \in Gens, code \in FetchErrorCodes : FetchFailed(g, code)
  \/ \E g \in Gens : MayChunk(g) /\ StreamChunk(g)
  \/ \E g \in Gens : StreamDone(g)
  \/ \E g \in Gens : ChunkTimeout(g)
  \/ AbortCatch

Spec == Init /\ [][Next]_vars

\* ------------------------------------------------- peers that reuse one id
\* All peers put the same request id on the wire and send prompts of legal
\* length; up to MaxReuseGens chat_start frames are accepted.
ReuseId == "r1"

MayOfferReuse == gate = NULL => Len(gens) < MaxReuseGens

NextReuse ==
  \/ \E s \in Sockets : handleConnection(s)
  \/ \E s \in Sockets : MayOfferReuse /\ handleChatStart(s, ReuseId, 1)
  \/ \E s \in Sockets : handleAbort(s, ReuseId)
  \/ \E s \in Sockets : SocketClose(s)
  \/ \E g \in Gens : FetchOk(g)
  \/ \E g \in Gens, code \in HttpErrorCodes : FetchHttpError(g, code)
  \/ \E g \in Gens, code \in FetchErrorCodes : FetchFailed(g, code)
  \/ \E g \in Gens : MayChunk(g) /\ StreamChunk(g)
  \/ \E g \in Gens : StreamDone(g)
  \/ \E g \in Gens : ChunkTimeout(g)
  \/ AbortCatch

SpecReuse == Init /\ [][NextReuse]_vars

\* ------------------------------------------------ the gate taken on its own
\* Any sequence of at most MaxGateOps operations on one ConcurrencyGate.
relayVars == <<sock, socketMap, abortControllers, gens, rejected, chunkSock,
               written, first, infos, wire, handled>>

GateOp(kind, id) == [kind |-> kind, id |-> id]

GateReturn(kind, b, id) == [kind |-> kind, b |-> b, id |-> id]

GateAcquire(id) ==
  /\ Len(gateTrace) < MaxGateOps
  /\ gate' = acquire(gate, id).slot
  /\ gateRet' = GateReturn("acquire", acquire(gate, id).ok, NULL)
  /\ gateTrace' = Append(gateTrace, GateOp("acquire", id))
  /\ UNCHANGED <<relayVars, benchVars, infoTimer, app>>

GateRelease(id) ==
  /\ Len(gateTrace) < MaxGateOps
  /\ gate' = release(gate, id)
  /\ gateRet' = Void
  /\ gateTrace' = Append(gateTrace, GateOp("release", id))
  /\ UNCHANGED <<relayVars, benchVars, infoTimer, app>>

GateForceRelease ==
  /\ Len(gateTrace) < MaxGateOps
  /\ gate' = forceRelease(gate)
  /\ gateRet' = Void
  /\ gateTrace' = Append(gateTrace, GateOp("forceRelease", NULL))
  /\ UNCHANGED <<relayVars, benchVars, infoTimer, app>>

GateIsBusy ==
  /\ Len(gateTrace) < MaxGateOps
  /\ gateRet' = GateReturn("isBusy", isBusy(gate), NULL)
  /\ gateTrace' = Append(gateTrace, GateOp("isBusy", NULL))
  /\ UNCHANGED <<gate, relayVars, benchVars, infoTimer, app>>

GateGetActiveRequest ==
  /\ Len(gateTrace) < MaxGateOps
  /\ gateRet' = GateReturn("getActiveRequest", FALSE, getActiveRequest(gate))
  /\ gateTrace' = Append(gateTrace, GateOp("getActiveRequest", NULL))
  /\ UNCHANGED <<gate, relayVars, benchVars, infoTimer, app>>

NextGate ==
  \/ \E id \in RequestIds : GateAcquire(id)
  \/ \E id \in RequestIds : GateRelease(id)
  \/ GateForceRelease
  \/ GateIsBusy
  \/ GateGetActiveRequest

SpecGate == Init /\ [][NextGate]_vars

\* ------------------------------------------------------- validateMessage
\* A parsed inbound value: type and request_id are strings, or NULL when the
\* property is absent, or NotString. payload says whether the property is an
\* object, holds the prompt when that is a string (<<>> otherwise), and names
\* in shapes the Host-to-peer types whose payload fields it carries with the
\* right types (host_name, model and status; text; finish_reason; code and
\* message), and "prompt" when the payload has a prompt that is not a string
\* (a number).
NotString == "#notstring"

Payload(isObject, prompt, shapes) ==
  [isObject |-> isObject, prompt |-> prompt, shapes |-> shapes]

NoPayload == Payload(FALSE, <<>>, {})

Raw(type, rid, payload) == [type |-> type, request_id |-> rid, payload |-> payload]

ChatStartRaw(rid, p) == Raw("chat_start", rid, Payload(TRUE, <<p>>, {}))

VALID_TYPES == {"server_info", "chat_start", "chat_chunk", "chat_end", "abort", "error"}

isString(v) == v # NULL /\ v # NotString

isValidEnvelope(msg) ==
  /\ msg.type \in VALID_TYPES
  /\ msg.request_id # NotString

isServerInfo(msg) ==
  /\ isValidEnvelope(msg)
  /\ msg.type = "server_info"
  /\ msg.payload.isObject
  /\ "server_info" \in msg.payload.shapes

isChatStart(msg) ==
  /\ isValidEnvelope(msg)
  /\ msg.type = "chat_start"
  /\ isString(msg.request_id)
  /\ msg.payload.isObject
  /\ msg.payload.prompt # <<>>

isChatChunk(msg) ==
  /\ isValidEnvelope(msg)
  /\ msg.type = "chat_chunk"
  /\ isString(msg.request_id)
  /\ msg.payload.isObject
  /\ "chat_chunk" \in msg.payload.shapes

isChatEnd(msg) ==
  /\ isValidEnvelope(msg)
  /\ msg.type = "chat_end"
  /\ isString(msg.request_id)
  /\ msg.payload.isObject
  /\ "chat_end" \in msg.payload.shapes

isAbort(msg) ==
  /\ isValidEnvelope(msg)
  /\ msg.type = "abort"
  /\ isString(msg.request_id)

isError(msg) ==
  /\ isValidEnvelope(msg)
  /\ msg.type = "error"
  /\ msg.payload.isObject
  /\ "error" \in msg.payload.shapes

Verdict(ok, error) == [ok |-> ok, error |-> error]

validateMessage(raw) ==
  IF ~isValidEnvelope(raw)
    THEN Verdict(FALSE, "Invalid message envelope")
  ELSE IF /\ raw.type = "chat_start"
          /\ raw.payload.isObject
          /\ raw.payload.prompt # <<>>
          /\ length(raw.payload.prompt[1]) > MAX_PROMPT_SIZE
    THEN Verdict(FALSE, "Prompt exceeds maximum size")
  ELSE CASE raw.type = "server_info" ->
              IF isServerInfo(raw) THEN Verdict(TRUE, NULL)
                                   ELSE Verdict(FALSE, "Invalid server_info message")
         [] raw.type = "chat_start" ->
              IF isChatStart(raw) THEN Verdict(TRUE, NULL)
                                  ELSE Verdict(FALSE, "Invalid chat_start message")
         [] raw.type = "chat_chunk" ->
              IF isChatChunk(raw) THEN Verdict(TRUE, NULL)
                                  ELSE Verdict(FALSE, "Invalid chat_chunk message")
         [] raw.type = "chat_end" ->
              IF isChatEnd(raw) THEN Verdict(TRUE, NULL)
                                ELSE Verdict(FALSE, "Invalid chat_end message")
         [] raw.type = "abort" ->
              IF isAbort(raw) THEN Verdict(TRUE, NULL)
                              ELSE Verdict(FALSE, "Invalid abort message")
         [] raw.type = "error" ->
              IF isError(raw) THEN Verdict(TRUE, NULL)
                              ELSE Verdict(FALSE, "Invalid error message")

\* ---------------------------------------------- one prompt, Host and validator
\* A peer's chat_start carries one prompt out of Prompts; it is handed to the
\* validator and sent to a Host whose gate is free.
Third == MAX_PROMPT_SIZE \div 3

Prompts ==
  {Prompt(b1, b2, b3, b4) :
     b1 \in {0, MAX_PROMPT_SIZE - 1, MAX_PROMPT_SIZE, MAX_PROMPT_SIZE + 1},
     b2 \in {0, 1},
     b3 \in {0, 1, Third + 1},
     b4 \in {0, 1, MAX_PROMPT_SIZE \div 4, MAX_PROMPT_SIZE \div 2}}

OfferPrompt(s) ==
  /\ gate = NULL
  /\ handleChatStart(s, ReuseId, length(probe.prompt))

ValidatePrompt ==
  /\ probe.verdict = <<>>
  /\ probe' = [probe EXCEPT !.verdict = <<validateMessage(ChatStartRaw(ReuseId, probe.prompt))>>]
  /\ UNCHANGED <<gate, relayVars, gateRet, gateTrace, infoTimer, server, peers, codec,
                 config, app, client>>

NextPrompt ==
  \/ \E s \in Sockets : handleConnection(s)
  \/ \E s \in Sockets : OfferPrompt(s)
  \/ ValidatePrompt

\* verdict: what validateMessage returned, once it has been called
InitPrompt ==
  /\ Constructed
  /\ probe \in [prompt : Prompts, verdict : {<<>>}]
  /\ server = <<>>
  /\ codec = <<>>
  /\ app = <<>>
  /\ client = <<>>

SpecPrompt == InitPrompt /\ [][NextPrompt]_vars

\* ------------------------------------------------ handleMessage, any frame
\* what the decoder hands to handleMessage: well-formed and malformed values.
\* The request_id of a chat_start is ReuseId in all of them, and prompts are
\* ASCII, so that code units and bytes agree.
RawTypes == {"chat_start", "abort", "ping"}

RawPayloads ==
  {NoPayload, Payload(TRUE, <<>>, {}),
   Payload(TRUE, <<Prompt(1, 0, 0, 0)>>, {}),
   Payload(TRUE, <<Prompt(MAX_PROMPT_SIZE + 1, 0, 0, 0)>>, {}),
   Payload(TRUE, <<>>, {"prompt"})}

Raws ==
  {raw \in [type : RawTypes, request_id : {ReuseId, NULL, NotString}, payload : RawPayloads] :
     raw.type = "chat_start" => raw.request_id = ReuseId}

\* the frame is dispatched to no handler: nothing is written
ignoreMessage(s, raw) ==
  /\ handled' = Callback("handleMessage", s, raw.request_id)
  /\ CanReceive(s)
  /\ Observe(<<>>, {})
  /\ UNCHANGED <<sock, gate, socketMap, abortControllers, gens, rejected,
                 chunkSock, sideVars>>

\* a handler threw: the catch block answers without a request id
catchMessage(s, raw) ==
  /\ handled' = Callback("handleMessage", s, raw.request_id)
  /\ CanReceive(s)
  /\ Observe(<< <<s, createErrorMessage("BAD_MESSAGE", NULL)>> >>, {})
  /\ UNCHANGED <<sock, gate, socketMap, abortControllers, gens, rejected,
                 chunkSock, sideVars>>

\* `payload.prompt.length` throws a TypeError when payload or prompt is
\* undefined, and is undefined, which is not greater than 8192, when prompt is
\* a number; an abort whose request_id is not a string meets no controller
handleMessage(s, raw) ==
  CASE raw.type = "chat_start" ->
         IF raw.payload.isObject /\ raw.payload.prompt # <<>>
           THEN handleChatStart(s, raw.request_id, length(raw.payload.prompt[1]))
         ELSE IF raw.payload.isObject /\ "prompt" \in raw.payload.shapes
           THEN handleChatStart(s, raw.request_id, 0)
           ELSE catchMessage(s, raw)
    [] raw.type = "abort" ->
         IF isString(raw.request_id)
           THEN handleAbort(s, raw.request_id)
           ELSE ignoreMessage(s, raw)
    [] OTHER -> ignoreMessage(s, raw)

\* a frame that would start a generation is offered only while few were started
MayOfferRaw(raw) ==
  ( /\ raw.type = "chat_start"
    /\ raw.payload.isObject
    /\ \/ raw.payload.prompt # <<>> /\ validateMessage(raw).ok
       \/ raw.payload.prompt = <<>> /\ "prompt" \in raw.payload.shapes
    /\ gate = NULL )
    => Len(gens) < MaxGens

NextMessage ==
  \/ \E s \in Sockets : handleConnection(s)
  \/ \E s \in Sockets, raw \in Raws : MayOfferRaw(raw) /\ handleMessage(s, raw)
  \/ \E g \in Gens : FetchOk(g)
  \/ \E g \in Gens : StreamDone(g)
  \/ AbortCatch

SpecMessage == Init /\ [][NextMessage]_vars

\* ------------------------------------------------- the server_info timer
\* Sessions whose server_info write is flushed early, late or never, while
\* requests with one id are served.
NextInfo ==
  \/ \E s \in Sockets : handleConnection(s)
  \/ \E s \in Sockets : WriteFlushed(s)
  \/ \E s \in Sockets : InfoTimeout(s)
  \/ \E s \in Sockets : SocketClose(s)
  \/ \E s \in Sockets : MayOffer(ReuseId, 1) /\ handleChatStart(s, ReuseId, 1)
  \/ \E g \in Gens : FetchOk(g)
  \/ \E g \in Gens : StreamDone(g)
  \/ AbortCatch

SpecInfo == Init /\ [][NextInfo]_vars

\* ------------------------------------------------------- status at attach
Models == {"llama3.2", "mistral"}

\* StreamingRelay.setModel(model)
setModel(m) ==
  /\ handled' = Callback("setModel", NoSocket, NULL)
  /\ Quiescent
  /\ m # config.model
  /\ config' = [config EXCEPT !.model = m]
  /\ Observe(<<>>, {})
  /\ UNCHANGED <<sock, gate, socketMap, abortControllers, gens, rejected, chunkSock,
                 gateRet, gateTrace, infoTimer, probe, server, peers, codec, client>>

NextStatus ==
  \/ \E s \in Sockets : handleConnection(s)
  \/ \E m \in Models : setModel(m)
  \/ \E s \in Sockets : MayOffer(ReuseId, 1) /\ handleChatStart(s, ReuseId, 1)
  \/ \E s \in Sockets : handleAbort(s, ReuseId)
  \/ \E s \in Sockets : SocketClose(s)
  \/ \E g \in Gens : FetchOk(g)
  \/ \E g \in Gens : StreamDone(g)
  \/ AbortCatch

SpecStatus == Init /\ [][NextStatus]_vars

\* ------------------------------------------------------------ SwarmServer
\* server.swarm, .topic, .serverId: 0 for null, else the number of the
\* Hyperswarm instance or of the topic drawn for it; server.hyper[n]: whether
\* instance n has joined its topic, how many connection handlers it carries,
\* whether destroy() was called and has completed; server.calls: start() and
\* stop() calls suspended at their await; server.stops: stop() calls so far.
RemoveAt(seq, i) == SubSeq(seq, 1, i - 1) \o SubSeq(seq, i + 1, Len(seq))

Call(op, inst) == [op |-> op, inst |-> inst]

isRunning == server.swarm # 0

getClientCount == Cardinality(server.connectedSockets)

\* start() up to `await discovery.flushed()`; it throws when already running
SwarmStart ==
  /\ Len(server.hyper) < MaxStarts
  /\ IF server.swarm # 0
       THEN UNCHANGED server
       ELSE LET n == Len(server.hyper) + 1
            IN server' = [server EXCEPT
                 !.topic = n, !.serverId = n, !.swarm = n,
                 !.hyper = Append(@, [joined |-> TRUE, handlers |-> 0,
                                      destroying |-> FALSE, destroyed |-> FALSE]),
                 !.calls = Append(@, Call("start", n))]
  /\ UNCHANGED <<gate, relayVars, gateRet, gateTrace, probe, infoTimer, peers, codec,
                 config, app, client>>

\* start() after the await: this.swarm.on("connection", ...) on whatever
\* this.swarm is by now; a TypeError when it is null
startReturns(i) ==
  /\ i \in 1..Len(server.calls)
  /\ server.calls[i].op = "start"
  /\ server' = [server EXCEPT
       !.calls = RemoveAt(@, i),
       !.hyper = IF server.swarm # 0
                   THEN [@ EXCEPT ![server.swarm].handlers = @ + 1]
                   ELSE @]
  /\ UNCHANGED <<gate, relayVars, gateRet, gateTrace, probe, infoTimer, peers, codec,
                 config, client>>

SwarmStartResume(i) ==
  /\ startReturns(i)
  /\ UNCHANGED app

\* a peer connects to a listening instance: the 'connection' handler
PeerConnection(q) ==
  /\ q = Len(peers) + 1
  /\ \E n \in 1..Len(server.hyper) :
       /\ server.hyper[n].handlers > 0
       /\ ~server.hyper[n].destroying
       /\ server' = [server EXCEPT !.connectedSockets = @ \cup {q}]
       /\ peers' = Append(peers, [NewPeer EXCEPT !.onConnection = server.hyper[n].handlers])
  /\ UNCHANGED <<gate, relayVars, gateRet, gateTrace, probe, infoTimer, codec,
                 config, app, client>>

\* 'close' (or 'error') of a peer's socket
PeerClose(q) ==
  /\ q \in 1..Len(peers)
  /\ peers[q].st \in {"open", "destroyed"}
  /\ server' = [server EXCEPT !.connectedSockets = @ \ {q}]
  /\ peers' = [peers EXCEPT ![q].st = "closed", ![q].onDisconnection = @ + 1]
  /\ UNCHANGED <<gate, relayVars, gateRet, gateTrace, probe, infoTimer, codec,
                 config, app, client>>

\* what stop() does to the SwarmServer up to `await this.swarm.destroy()`
stopCall(srv) ==
  IF srv.swarm = 0
    THEN [srv EXCEPT !.stops = @ + 1]
    ELSE [srv EXCEPT
           !.stops = @ + 1,
           !.connectedSockets = {},
           !.hyper = [@ EXCEPT ![srv.swarm].joined = IF srv.topic # 0 THEN FALSE ELSE @,
                               ![srv.swarm].destroying = TRUE],
           !.calls = Append(@, Call("stop", srv.swarm))]

\* stop() up to `await this.swarm.destroy()`
SwarmStop ==
  /\ server.stops < MaxStops
  /\ IF server.swarm = 0
       THEN /\ server' = stopCall(server)
            /\ UNCHANGED peers
       ELSE /\ peers' = [q \in 1..Len(peers) |->
                           IF q \in server.connectedSockets /\ peers[q].st = "open"
                             THEN [peers[q] EXCEPT !.st = "destroyed"]
                             ELSE peers[q]]
            /\ server' = stopCall(server)
  /\ UNCHANGED <<gate, relayVars, gateRet, gateTrace, probe, infoTimer, codec,
                 config, app, client>>

\* stop() after the await
stopReturns(i) ==
  /\ i \in 1..Len(server.calls)
  /\ server.calls[i].op = "stop"
  /\ server' = [server EXCEPT
       !.calls = RemoveAt(@, i),
       !.hyper = [@ EXCEPT ![server.calls[i].inst].destroyed = TRUE],
       !.swarm = 0, !.topic = 0, !.serverId = 0]
  /\ UNCHANGED <<gate, relayVars, gateRet, gateTrace, probe, infoTimer, peers, codec,
                 config, client>>

SwarmStopResume(i) ==
  /\ stopReturns(i)
  /\ UNCHANGED app

NextSwarm ==
  \/ SwarmStart
  \/ \E i \in 1..MaxStarts + MaxStops : SwarmStartResume(i)
  \/ \E q \in Peers : PeerConnection(q)
  \/ \E q \in Peers : PeerClose(q)
  \/ SwarmStop
  \/ \E i \in 1..MaxStarts + MaxStops : SwarmStopResume(i)

\* the relay and a SwarmServer, both just constructed
InitServer ==
  /\ Constructed
  /\ probe = <<>>
  /\ server = NoServer
  /\ codec = <<>>
  /\ app = <<>>
  /\ client = <<>>

SpecSwarm == InitServer /\ [][NextSwarm]_vars

\* ---------------------------------------------------------------- HostApp
\* SwarmServer and StreamingRelay wired together by HostApp: the sockets of
\* the SwarmServer are the relay's, peers reuse one request id.
Listening ==
  \E n \in 1..Len(server.hyper) :
    server.hyper[n].handlers > 0 /\ ~server.hyper[n].destroying

\* HostApp.handleConnection, called by the SwarmServer's 'connection' handler
HostConnection(s) ==
  /\ Listening
  /\ server' = [server EXCEPT !.connectedSockets = @ \cup {s}]
  /\ onConnection(s)
  /\ app' = updateState(app, gate')
  /\ UNCHANGED <<probe, peers, codec, config, client>>

\* HostApp.handleDisconnection, called by the socket's 'close' or 'error' handler
HostClose(s) ==
  /\ server' = [server EXCEPT !.connectedSockets = @ \ {s}]
  /\ onDisconnection(s)
  /\ app' = updateState(app, gate')
  /\ UNCHANGED <<probe, peers, codec, config, client>>

\* HostApp.startServer after `await this.swarmServer.start()`; nothing is
\* shown when start() threw
HostStartResume(i) ==
  /\ startReturns(i)
  /\ app' = IF server.swarm # 0 THEN setState(app, "ready") ELSE app

\* HostApp.stopServer after `await this.swarmServer.stop()`
HostStopResume(i) ==
  /\ stopReturns(i)
  /\ app' = setState(app, "stopped")

\* StreamingRelay.abortActiveInference: the provider's abort for the gate's
\* request, the gate released, the session's active request cleared
abortActiveInference ==
  /\ abort(gate)
  /\ gate' = forceRelease(gate)
  /\ socketMap' = [s \in Sockets |-> IF socketMap[s] = gate THEN NULL ELSE socketMap[s]]

\* HostApp.stopServer up to the await inside SwarmServer.stop; stop() on a
\* server that is not running returns at once and the tray is set
stopServer ==
  /\ handled' = Callback("stopServer", NoSocket, NULL)
  /\ Quiescent
  /\ server.stops < MaxStops
  /\ IF isBusy(gate)
       THEN abortActiveInference
       ELSE UNCHANGED <<gate, socketMap, abortControllers, gens, rejected>>
  /\ sock' = [s \in Sockets |->
                IF server.swarm # 0 /\ s \in server.connectedSockets /\ sock[s] = "open"
                  THEN "destroyed" ELSE sock[s]]
  /\ server' = stopCall(server)
  /\ Seen(<<>>, {})
  /\ app' = IF server.swarm = 0 THEN setState(app, "stopped") ELSE app
  /\ UNCHANGED <<chunkSock, gateRet, gateTrace, probe, infoTimer, peers, codec,
                 config, client>>

NextHost ==
  \/ SwarmStart
  \/ \E i \in 1..MaxStarts + MaxStops : HostStartResume(i)
  \/ \E s \in Sockets : HostConnection(s)
  \/ \E s \in Sockets : HostClose(s)
  \/ \E s \in Sockets : MayOfferReuse /\ handleChatStart(s, ReuseId, 1)
  \/ \E s \in Sockets : handleAbort(s, ReuseId)
  \/ \E g \in Gens : FetchOk(g)
  \/ \E g \in Gens : StreamDone(g)
  \/ AbortCatch
  \/ stopServer
  \/ \E i \in 1..MaxStarts + MaxStops : HostStopResume(i)

\* HostApp after its constructor: relay, SwarmServer and tray
NoApp == << [state |-> "stopped", unreachable |-> 0] >>

InitHost ==
  /\ Constructed
  /\ probe = <<>>
  /\ server = NoServer
  /\ codec = <<>>
  /\ app = NoApp
  /\ client = <<>>

SpecHost == InitHost /\ [][NextHost]_vars

\* ------------------------------------------------------------------ codec
\* A string is a sequence of pieces.  "a" is one ordinary character; "RUN" is
\* RunLength ASCII characters; "EUROS" is EuroLength characters of three UTF-8
\* bytes each; "NL" is the line feed inside a message's text; on the wire "{"
\* and "}" delimit the JSON object, "\\" and "n" spell an escaped line feed and
\* "LF" is the frame separator.  A message is the text it carries.
MAX_BUFFER_SIZE == 65536

RunLength == 40000

EuroLength == 30000

MsgChars == {"a", "NL", "RUN", "EUROS"}

\* String.prototype.length of a piece, in UTF-16 code units
pieceLength(c) ==
  CASE c = "RUN" -> RunLength
    [] c = "EUROS" -> EuroLength
    [] OTHER -> 1

RECURSIVE strLength(_)
strLength(str) ==
  IF str = <<>> THEN 0 ELSE pieceLength(Head(str)) + strLength(Tail(str))

\* faulty variant of stringify: a line feed in the text goes out as it is
stringifyRaw(m) ==
  <<"{">> \o [i \in 1..Len(m) |-> IF m[i] = "NL" THEN "LF" ELSE m[i]] \o <<"}">>

RECURSIVE escape(_)
escape(m) ==
  IF m = <<>> THEN <<>>
  ELSE (IF Head(m) = "NL" THEN <<"\\", "n">> ELSE <<Head(m)>>) \o escape(Tail(m))

\* JSON.stringify of the message
stringify(m) == <<"{">> \o escape(m) \o <<"}">>

encode(m) == stringify(m) \o <<"LF">>

\* the text between the braces, unescaped; Malformed when it is no JSON text
Malformed == <<"#malformed">>

RECURSIVE unescape(_)
unescape(str) ==
  IF str = <<>> THEN <<>>
  ELSE IF Head(str) \in {"{", "}", "LF", "n"} THEN Malformed
  ELSE IF Head(str) = "\\"
    THEN IF Len(str) >= 2 /\ str[2] = "n" /\ unescape(SubSeq(str, 3, Len(str))) # Malformed
           THEN <<"NL">> \o unescape(SubSeq(str, 3, Len(str)))
           ELSE Malformed
  ELSE IF unescape(Tail(str)) = Malformed THEN Malformed
  ELSE <<Head(str)>> \o unescape(Tail(str))

\* JSON.parse(line): the message, or Malformed when it throws
parse(line) ==
  IF Len(line) >= 2 /\ line[1] = "{" /\ line[Len(line)] = "}"
    THEN unescape(SubSeq(line, 2, Len(line) - 1))
    ELSE Malformed

\* buffer.indexOf("\n"), 0 when there is none
indexOfLF(str) ==
  IF \E i \in 1..Len(str) : str[i] = "LF"
    THEN CHOOSE i \in 1..Len(str) : str[i] = "LF" /\ \A j \in 1..(i - 1) : str[j] # "LF"
    ELSE 0

\* the loop of write: every complete line leaves the buffer, and is delivered
\* when it is not empty and parses
\* faulty variant of drain: no try/catch around JSON.parse, whatever it yields
\* is delivered
RECURSIVE drainNoCatch(_)
drainNoCatch(dec) ==
  LET i == indexOfLF(dec.buffer)
      line == SubSeq(dec.buffer, 1, i - 1)
      rest == SubSeq(dec.buffer, i + 1, Len(dec.buffer))
  IN IF i = 0 THEN dec
     ELSE drainNoCatch([dec EXCEPT
            !.buffer = rest,
            !.delivered = IF line # <<>> THEN Append(@, parse(line)) ELSE @])

RECURSIVE drain(_)
drain(dec) ==
  LET i == indexOfLF(dec.buffer)
      line == SubSeq(dec.buffer, 1, i - 1)
      rest == SubSeq(dec.buffer, i + 1, Len(dec.buffer))
  IN IF i = 0 THEN dec
     ELSE drain([dec EXCEPT
            !.buffer = rest,
            !.delivered = IF line # <<>> /\ parse(line) # Malformed
                            THEN Append(@, parse(line)) ELSE @])

\* Decoder.write(chunk)
write(dec, chunk) ==
  IF strLength(dec.buffer \o chunk) > MAX_BUFFER_SIZE
    THEN [dec EXCEPT !.buffer = <<>>, !.signals = @ + 1]
    ELSE drain([dec EXCEPT !.buffer = @ \o chunk])

\* the messages of a flat text in which "END" closes each message
RECURSIVE split(_, _)
split(flat, cur) ==
  IF flat = <<>> THEN <<>>
  ELSE IF Head(flat) = "END" THEN <<cur>> \o split(Tail(flat), <<>>)
  ELSE split(Tail(flat), Append(cur, Head(flat)))

Count(flat, set) == Cardinality({i \in 1..Len(flat) : flat[i] \in set})

\* at most MaxMsgs messages with at most MaxText pieces of text between them
MsgSeqs ==
  {split(flat, <<>>) :
     flat \in {f \in UNION {[1..n -> MsgChars \cup {"END"}] : n \in 0..(MaxMsgs + MaxText)} :
                 /\ f # <<>> => f[Len(f)] = "END"
                 /\ Count(f, {"END"}) <= MaxMsgs
                 /\ Count(f, MsgChars) <= MaxText}}

RECURSIVE encodeAll(_)
encodeAll(ms) ==
  IF ms = <<>> THEN <<>> ELSE encode(Head(ms)) \o encodeAll(Tail(ms))

InitCodec ==
  /\ Constructed
  /\ app = <<>>
  /\ client = <<>>
  /\ probe = <<>>
  /\ server = <<>>
  /\ codec \in {[NoCodec EXCEPT !.msgs = ms, !.rest = encodeAll(ms)] : ms \in MsgSeqs}

\* the next k pieces of the stream arrive as one chunk
DecoderWrite(k) ==
  /\ k \in 1..Len(codec.rest)
  /\ codec' = [write(codec, SubSeq(codec.rest, 1, k)) EXCEPT
                 !.rest = SubSeq(codec.rest, k + 1, Len(codec.rest)),
                 !.writes = @ + 1]
  /\ UNCHANGED <<gate, relayVars, gateRet, gateTrace, probe, infoTimer, server, peers,
                 config, app, client>>

NextCodec == \E k \in 1..(3 * (MaxMsgs + MaxText)) : DecoderWrite(k)

SpecCodec == InitCodec /\ [][NextCodec]_vars

\* ------------------------------------------------------- lines of any kind
\* A stream that also carries lines a peer did not encode: "not json" and a
\* truncated object, an empty line, and junk longer than the buffer.
MaxLines == 3

LineTexts == {<<>>, <<"a">>, <<"NL">>}

NotJson == {<<"a">>, <<"{", "a">>, <<"RUN", "RUN">>}

\* a line of the stream: its characters and, if it is one, the message it encodes
GoodLine(m) == [chars |-> stringify(m), msg |-> <<m>>]

BadLine(str) == [chars |-> str, msg |-> <<>>]

Lines == {GoodLine(m) : m \in LineTexts} \cup {BadLine(str) : str \in NotJson \cup {<<>>}}

RECURSIVE joinLines(_)
joinLines(ls) ==
  IF ls = <<>> THEN <<>> ELSE Head(ls).chars \o <<"LF">> \o joinLines(Tail(ls))

\* the messages of the well-formed lines, in arrival order
RECURSIVE wellFormed(_)
wellFormed(ls) ==
  IF ls = <<>> THEN <<>> ELSE Head(ls).msg \o wellFormed(Tail(ls))

InitLines ==
  /\ Constructed
  /\ app = <<>>
  /\ client = <<>>
  /\ probe = <<>>
  /\ server = <<>>
  /\ codec \in {[msgs |-> wellFormed(ls), rest |-> joinLines(ls), buffer |-> <<>>,
                 delivered |-> <<>>, signals |-> 0, writes |-> 0, lines |-> ls] :
                  ls \in UNION {[1..n -> Lines] : n \in 1..MaxLines}}

NextLines == \E k \in 1..(4 * MaxLines) : DecoderWrite(k)

SpecLines == InitLines /\ [][NextLines]_vars

\* ------------------------------------------- provider errors under HostApp
\* HostApp with its server started: sessions, prompts with either request id,
\* aborts, and a provider whose fetch may fail
NextEscalate ==
  \/ SwarmStart
  \/ \E i \in 1..MaxStarts + MaxStops : HostStartResume(i)
  \/ \E s \in Sockets : HostConnection(s)
  \/ \E s \in Sockets, r \in RequestIds : MayOfferReuse /\ handleChatStart(s, r, 1)
  \/ \E s \in Sockets, r \in RequestIds : handleAbort(s, r)
  \/ \E g \in Gens : FetchOk(g)
  \/ \E g \in Gens, code \in HttpErrorCodes : FetchHttpError(g, code)
  \/ \E g \in Gens, code \in FetchErrorCodes : FetchFailed(g, code)
  \/ \E g \in Gens : StreamDone(g)
  \/ AbortCatch

SpecEscalate == InitHost /\ [][NextEscalate]_vars

\* ------------------------------------------------------------ ProtocolClient
\* The client's protocol driver, alone with its transport and its handlers.
\* Time is Date.now() in milliseconds; it passes between callbacks only.
MaxTicks == 3

MaxRequests == 2
MaxSessionRequests == 3

CLIENT_TIMEOUT_MS == 30000

\* values of Math.floor(Math.random() * 100000)
Randoms == {0, 1}

hostVars == <<sock, gate, socketMap, abortControllers, gens, rejected, chunkSock,
              written, first, infos, wire, handled, gateRet, gateTrace, probe,
              infoTimer, server, peers, codec, config, app>>

\* a prompt as the user typed it: pad white-space characters around a text
\* that neither starts nor ends with white space
Typed(pad, text) == [pad |-> pad, text |-> text]

\* String.prototype.trim
trim(prompt) == prompt.text

ClientPrompts ==
  {Typed(0, Prompt(0, 0, 0, 0)), Typed(1, Prompt(0, 0, 0, 0)),
   Typed(1, Prompt(1, 0, 0, 0)), Typed(1, Prompt(MAX_PROMPT_SIZE, 0, 0, 0)),
   Typed(0, Prompt(MAX_PROMPT_SIZE + 1, 0, 0, 0)),
   Typed(0, Prompt(MAX_PROMPT_SIZE - 1, 1, 0, 0))}

\* a line handed to transport.sendLine
Line(type, requestId, prompt) == [type |-> type, request_id |-> requestId, prompt |-> prompt]

\* a call of handlers.onEvent or handlers.onConnectionState
Event(handler, type, requestId, detail) ==
  [handler |-> handler, type |-> type, requestId |-> requestId, detail |-> detail]

\* the ProtocolClient after its constructor.  timeoutId: <<>> (null) or the
\* timer set last, with the requestId its callback closes over, the time at
\* which it is due and whether it has run.  used, sent, events, ret and calls
\* observe it: the request ids made so far, and the sendLine calls, handler
\* calls, return value and transport.disconnect/destroy calls of the last
\* callback.
NoClient ==
  << [activeRequestId |-> NULL, timeoutId |-> <<>>, clock |-> 0,
      used |-> {}, sent |-> <<>>, events |-> <<>>, ret |-> <<>>, calls |-> <<>>] >>

\* a callback starts: nothing sent, surfaced, returned or called yet
Enter(c) == [c EXCEPT !.sent = <<>>, !.events = <<>>, !.ret = <<>>, !.calls = <<>>]

sendLine(c, line) == [c EXCEPT !.sent = Append(@, line)]

onEvent(c, type, requestId, detail) ==
  [c EXCEPT !.events = Append(@, Event("onEvent", type, requestId, detail))]

onConnectionState(c, state, message) ==
  [c EXCEPT !.events = Append(@, Event("onConnectionState", state, NULL, message))]

clearTimeoutGuard(c) == [c EXCEPT !.timeoutId = <<>>]

\* faulty variant of clearRequestState: the timer is left running
clearRequestStateKeepTimer(c) == [c EXCEPT !.activeRequestId = NULL]

clearRequestState(c) == [clearTimeoutGuard(c) EXCEPT !.activeRequestId = NULL]

startTimeout(c, requestId) ==
  [clearTimeoutGuard(c) EXCEPT
     !.timeoutId = << [requestId |-> requestId,
                       due |-> c.clock + CLIENT_TIMEOUT_MS, ran |-> FALSE] >>]

makeRequestId(now, random) == "req-" \o ToString(now) \o "-" \o ToString(random)

Return(c, ok, error) == [c EXCEPT !.ret = << [ok |-> ok, error |-> error] >>]

sendChatStart(c, prompt, random) ==
  LET sanitized == trim(prompt)
      requestId == makeRequestId(c.clock, random)
  IN IF length(sanitized) = 0
       THEN Return(c, FALSE, "Prompt cannot be empty")
     ELSE IF length(sanitized) > MAX_PROMPT_SIZE
       THEN Return(c, FALSE, "Prompt exceeds 8 KB limit")
     ELSE IF Truthy(c.activeRequestId)
       THEN Return(c, FALSE, "A request is already in progress")
     ELSE Return(startTimeout([sendLine(c, Line("chat_start", requestId, <<sanitized>>))
                                 EXCEPT !.activeRequestId = requestId,
                                        !.used = @ \cup {requestId}],
                              requestId),
                 TRUE, NULL)

\* ProtocolClient.abort, after a faulty variant of it in which the request
\* stays active
abortKeepActive(c) ==
  IF ~Truthy(c.activeRequestId)
    THEN c
    ELSE clearTimeoutGuard(sendLine(c, Line("abort", c.activeRequestId, <<>>)))

abortRequest(c) ==
  IF ~Truthy(c.activeRequestId)
    THEN c
    ELSE [clearTimeoutGuard(sendLine(c, Line("abort", c.activeRequestId, <<>>)))
            EXCEPT !.activeRequestId = NULL]

\* ProtocolClient.disconnect
disconnect(c) ==
  onConnectionState([clearRequestState(c) EXCEPT !.calls = Append(@, "disconnect")],
                    "disconnected", NULL)

handleTerminalMessage(c, message) ==
  LET requestId == message.request_id
  IN IF Truthy(requestId) /\ requestId = c.activeRequestId
       THEN clearRequestState(c)
     ELSE IF ~Truthy(requestId) /\ Truthy(c.activeRequestId)
       THEN clearRequestState(c)
       ELSE c

\* faulty variant of handleProtocolMessage: a chunk does not restart the timer
handleProtocolMessageNoRestart(c, message) ==
  CASE message.type = "server_info" -> onEvent(c, "server_info", NULL, NULL)
    [] message.type = "chat_chunk" -> onEvent(c, "chat_chunk", message.request_id, NULL)
    [] message.type = "chat_end" ->
         onEvent(handleTerminalMessage(c, message), "chat_end", message.request_id, NULL)
    [] message.type = "error" ->
         onEvent(handleTerminalMessage(c, message), "error", message.request_id, NULL)
    [] OTHER -> onEvent(c, "unknown", message.request_id, NULL)

handleProtocolMessage(c, message) ==
  CASE message.type = "server_info" -> onEvent(c, "server_info", NULL, NULL)
    [] message.type = "chat_chunk" ->
         onEvent(IF c.activeRequestId = message.request_id
                   THEN startTimeout(c, message.request_id) ELSE c,
                 "chat_chunk", message.request_id, NULL)
    [] message.type = "chat_end" ->
         onEvent(handleTerminalMessage(c, message), "chat_end", message.request_id, NULL)
    [] message.type = "error" ->
         onEvent(handleTerminalMessage(c, message), "error", message.request_id, NULL)
    [] OTHER -> onEvent(c, "unknown", message.request_id, NULL)

handleProtocolPayload(c, raw) ==
  IF ~validateMessage(raw).ok
    THEN onEvent(c, "bad_message", NULL, validateMessage(raw).error)
    ELSE handleProtocolMessage(c, raw)

\* the callback given to setTimeout by startTimeout
timeoutCallback(c) ==
  LET requestId == c.timeoutId[1].requestId
      d == [c EXCEPT !.timeoutId[1].ran = TRUE]
  IN IF d.activeRequestId # requestId
       THEN d
       ELSE onConnectionState(onEvent(clearRequestState(d), "timeout", requestId, NULL),
                              "error", "TIMEOUT_NO_RESPONSE: No response for 30 seconds")

\* handleTransportEvent for the events that carry no chunk
TransportEvents == {"connecting", "connected", "disconnected", "network_error"}

handleTransportEvent(c, type) ==
  CASE type = "disconnected" -> onConnectionState(clearRequestState(c), "disconnected", NULL)
    [] type = "network_error" ->
         onEvent(onConnectionState(clearRequestState(c), "error", "Connection error"),
                 "error", NULL, "CONNECT_FAILED")
    [] OTHER -> onConnectionState(c, type, NULL)

\* the frames the peer may send: every type, with a request id the client
\* has made or none, and a payload of the type's shape or none
InboundTypes == {"server_info", "chat_chunk", "chat_end", "error", "abort"}

Inbound(c) ==
  {Raw(type, rid, IF shaped THEN Payload(TRUE, <<>>, {type}) ELSE NoPayload) :
     type \in InboundTypes, rid \in c.used \cup {NULL}, shaped \in BOOLEAN}

\* a prompt that would be sent is offered only while few requests were made
MaySend(c, prompt) ==
  (length(trim(prompt)) \in 1..MAX_PROMPT_SIZE /\ ~Truthy(c.activeRequestId))
    => Cardinality(c.used) < MaxRequests

CallSendChatStart(prompt, random) ==
  /\ client # <<>>
  /\ MaySend(client[1], prompt)
  /\ client' = << sendChatStart(Enter(client[1]), prompt, random) >>
  /\ UNCHANGED hostVars

CallAbort ==
  /\ client # <<>>
  /\ client' = << abortRequest(Enter(client[1])) >>
  /\ UNCHANGED hostVars

CallDisconnect ==
  /\ client # <<>>
  /\ client' = << disconnect(Enter(client[1])) >>
  /\ UNCHANGED hostVars

\* one line of an "incoming" transport event reaches the decoder's callback
Incoming(raw) ==
  /\ client # <<>>
  /\ raw \in Inbound(client[1])
  /\ client' = << handleProtocolPayload(Enter(client[1]), raw) >>
  /\ UNCHANGED hostVars

TransportEvent(type) ==
  /\ client # <<>>
  /\ client' = << handleTransportEvent(Enter(client[1]), type) >>
  /\ UNCHANGED hostVars

\* a timer that was set, has not been cleared and is due runs its callback
TimeoutFires ==
  /\ client # <<>>
  /\ client[1].timeoutId # <<>>
  /\ ~client[1].timeoutId[1].ran
  /\ client[1].clock >= client[1].timeoutId[1].due
  /\ client' = << timeoutCallback(Enter(client[1])) >>
  /\ UNCHANGED hostVars

\* the event loop is idle for CLIENT_TIMEOUT_MS milliseconds
ClockTick ==
  /\ client # <<>>
  /\ client[1].clock < MaxTicks * CLIENT_TIMEOUT_MS
  /\ client' = << [client[1] EXCEPT !.clock = @ + CLIENT_TIMEOUT_MS] >>
  /\ UNCHANGED hostVars

NextClient ==
  \/ \E prompt \in ClientPrompts, random \in Randoms : CallSendChatStart(prompt, random)
  \/ CallAbort
  \/ CallDisconnect
  \/ \E type \in InboundTypes, rid \in client[1].used \cup {NULL}, shaped \in BOOLEAN :
       Incoming(Raw(type, rid, IF shaped THEN Payload(TRUE, <<>>, {type}) ELSE NoPayload))
  \/ \E type \in TransportEvents : TransportEvent(type)
  \/ TimeoutFires
  \/ ClockTick

InitClient ==
  /\ Constructed
  /\ probe = <<>>
  /\ server = <<>>
  /\ codec = <<>>
  /\ app = <<>>
  /\ client = NoClient

SpecClient == InitClient /\ [][NextClient]_vars

\* ------------------------------------------------ streaming to two sessions
\* Peers with two request ids and prompts of legal length; the provider sends
\* up to MaxStreamChunks text lines per generation and ends normally unless
\* the holder aborts or its socket closes.
MayStream(g) == gens[g].n < MaxStreamChunks

NextStream ==
  \/ \E s \in Sockets : handleConnection(s)
  \/ \E s \in Sockets, r \in RequestIds : MayOffer(r, 1) /\ handleChatStart(s, r, 1)
  \/ \E s \in Sockets, r \in RequestIds : handleAbort(s, r)
  \/ \E s \in Sockets : SocketClose(s)
  \/ \E g \in Gens : FetchOk(g)
  \/ \E g \in Gens : MayStream(g) /\ StreamChunk(g)
  \/ \E g \in Gens : StreamDone(g)
  \/ AbortCatch

SpecStream == Init /\ [][NextStream]_vars

\* --------------------------------------------- one client session and the Host
\* A ProtocolClient connected to the relay over socket 1.  A line that the
\* client writes is client[1].sent until the Host has dispatched it; the Host
\* dispatches the lines in the order in which the client wrote them, and a
\* frame that the Host has just written may reach the client or still be on
\* its way.  The provider sends no text: a generation ends, is aborted or
\* runs into its chunk timer.
SessionIds ==
  {makeRequestId(k * CLIENT_TIMEOUT_MS, x) : k \in 0..MaxTicks, x \in Randoms}

SessionPrompt == Typed(1, Prompt(1, 0, 0, 0))

\* the relay callback that a line of the client ends in
LineCallback(line) ==
  Callback(IF line.type = "chat_start" THEN "handleChatStart" ELSE "handleAbort",
           1, line.request_id)

\* JSON.parse of a line that the client encoded
RawOfLine(line) ==
  IF line.type = "chat_start"
    THEN ChatStartRaw(line.request_id, line.prompt[1])
    ELSE Raw(line.type, line.request_id, NoPayload)

\* JSON.parse of a frame that the relay encoded
RawOfFrame(f) == Raw(f.type, f.request_id, Payload(TRUE, <<>>, {f.type}))

\* the client's last line is on its way to the Host
Unsent(c) == c.sent # <<>> /\ handled # LineCallback(c.sent[1])

\* the Host has dispatched the client's last line; its write has yet to complete
Dispatched(c) == c.sent # <<>> /\ handled = LineCallback(c.sent[1])

Settled == client # <<>> /\ client[1].sent = <<>>

\* the client waits for a timer; time is taken to pass only then, since at
\* other moments it changes nothing but the ids that the client draws
TimerPending(c) ==
  /\ c.timeoutId # <<>>
  /\ ~c.timeoutId[1].ran
  /\ c.clock < c.timeoutId[1].due

SessionConnect ==
  /\ Settled
  /\ handleConnection(1)

SessionSend(random) ==
  /\ Settled
  /\ sock[1] = "open"
  /\ ~Truthy(client[1].activeRequestId)
  /\ Len(gens) < MaxSessionRequests
  /\ Cardinality(client[1].used \cup {makeRequestId(client[1].clock, random)})
       <= MaxSessionRequests
  /\ handled # Callback("handleChatStart", 1, makeRequestId(client[1].clock, random))
  /\ client' = << sendChatStart(Enter(client[1]), SessionPrompt, random) >>
  /\ UNCHANGED hostVars

SessionAbort ==
  /\ Settled
  /\ sock[1] = "open"
  /\ Truthy(client[1].activeRequestId)
  /\ handled # Callback("handleAbort", 1, client[1].activeRequestId)
  /\ CallAbort

\* the decoder of socket 1 hands the client's line to handleMessage
SessionDispatch ==
  /\ client # <<>>
  /\ Unsent(client[1])
  /\ handleMessage(1, RawOfLine(client[1].sent[1]))

SessionFlushed ==
  /\ client # <<>>
  /\ Dispatched(client[1])
  /\ client' = << [client[1] EXCEPT !.sent = <<>>] >>
  /\ UNCHANGED hostVars

\* the frame that the relay wrote last reaches the client's decoder
SessionDeliver ==
  /\ Settled
  /\ client[1].events = <<>>
  /\ written # <<>>
  /\ written[1][1] = 1
  /\ client' = << handleProtocolPayload(Enter(client[1]), RawOfFrame(written[1][2])) >>
  /\ UNCHANGED hostVars

NextSession ==
  \/ SessionConnect
  \/ \E random \in Randoms : SessionSend(random)
  \/ SessionAbort
  \/ SessionDispatch
  \/ SessionFlushed
  \/ SessionDeliver
  \/ Settled /\ TimeoutFires
  \/ Settled /\ TimerPending(client[1]) /\ ClockTick
  \/ \E g \in Gens : ~Dispatched(client[1]) /\ FetchOk(g)
  \/ \E g \in Gens : ~Dispatched(client[1]) /\ StreamDone(g)
  \/ \E g \in Gens : ~Dispatched(client[1]) /\ ChunkTimeout(g)
  \/ ~Dispatched(client[1]) /\ AbortCatch

\* the relay and a ProtocolClient, both just constructed; the adapter's map
\* may come to hold the ids that the client makes
InitSession ==
  /\ sock = [s \in Sockets |-> "new"]
  /\ gate = NULL
  /\ socketMap = [s \in Sockets |-> NULL]
  /\ abortControllers = [r \in RequestIds \cup SessionIds |-> 0]
  /\ gens = <<>>
  /\ rejected = <<>>
  /\ chunkSock = NoSocket
  /\ written = <<>>
  /\ first = [s \in Sockets |-> NULL]
  /\ infos = [s \in Sockets |-> 0]
  /\ wire = [s \in Sockets |-> [r \in RequestIds |-> "idle"]]
  /\ handled = Callback(NULL, NoSocket, NULL)
  /\ gateRet = Void
  /\ gateTrace = <<>>
  /\ infoTimer = [s \in Sockets |-> NoTimer]
  /\ peers = <<>>
  /\ config = [hostName |-> "host", model |-> "llama3.2"]
  /\ probe = <<>>
  /\ server = <<>>
  /\ codec = <<>>
  /\ app = <<>>
  /\ client = NoClient

SpecSession == InitSession /\ [][NextSession]_vars

\* =================================================================== claims
\* generations started and not yet ended, errored or cancelled
Running == {g \in Gens : gens[g].st \in Pending}

\* the session of socket s holds the gate
HoldsGate(s) == socketMap[s] # NULL /\ socketMap[s] = gate

\* C1 -- Exclusivity: in every reachable state at most one provider generation
\* is running, and every chat_start handled while the gate is held is answered
\* with one error frame MODEL_BUSY.
C1_Exclusivity ==
  /\ [](Cardinality(Running) <= 1)
  /\ [][\A s \in Sockets, r \in RequestIds, len \in PromptLengths :
          (isBusy(gate) /\ handleChatStart(s, r, len))
            => written' = << <<s, createErrorMessage("MODEL_BUSY", r)>> >>]_vars

\* C2 -- Terminal uniqueness: on a socket that is open, a chat_chunk or a
\* terminal frame (chat_end, or an error other than the rejection of a
\* chat_start) with id r is written only while an accepted request r of that
\* session has no terminal frame yet; so no chunk and no second terminal
\* follows the terminal of r.
C2_TerminalUniqueness ==
  [][\A i \in 1..Len(written') :
       LET s == written'[i][1]
           f == written'[i][2]
       IN (sock'[s] = "open" /\ (f.type = "chat_chunk" \/ IsTerminal(f)))
            => wire[s][f.request_id] = "open"]_vars

\* C3 -- Release after terminal: there is no reachable state in which the gate
\* is free while an accepted request of a session whose socket is open has
\* not had its terminal frame written.
C3_ReleaseAfterTerminal ==
  \A s \in Sockets, r \in RequestIds :
    (gate = NULL /\ sock[s] = "open") => wire[s][r] # "open"

\* C4 -- At most one session has a recorded active request, and that request
\* id is the gate's active request id.
C4_OneOwner ==
  /\ Cardinality({s \in Sockets : socketMap[s] # NULL}) <= 1
  /\ \A s \in Sockets : socketMap[s] # NULL => socketMap[s] = getActiveRequest(gate)

\* C5 -- The gate is a single-slot option: acquire(id) returns true and stores
\* id iff the slot is empty and otherwise returns false and keeps the holder;
\* release(id) empties the slot iff it holds exactly id; forceRelease always
\* empties it; isBusy and getActiveRequest report the slot and leave it alone.
C5_SingleSlot ==
  [][gateTrace' # gateTrace =>
       LET op == gateTrace'[Len(gateTrace')]
       IN CASE op.kind = "acquire" ->
                 /\ gateRet'.b = (gate = NULL)
                 /\ gate' = IF gate = NULL THEN op.id ELSE gate
            [] op.kind = "release" ->
                 gate' = IF gate = op.id THEN NULL ELSE gate
            [] op.kind = "forceRelease" -> gate' = NULL
            [] op.kind = "isBusy" ->
                 gateRet'.b = (gate # NULL) /\ gate' = gate
            [] op.kind = "getActiveRequest" ->
                 gateRet'.id = gate /\ gate' = gate]_vars

\* a release keyed by another id left the holder in place, and the acquire
\* that followed was refused
C5_Witness ==
  /\ Len(gateTrace) = 3
  /\ gateTrace[1].kind = "acquire"
  /\ gateTrace[2].kind = "release" /\ gateTrace[2].id # gateTrace[1].id
  /\ gateTrace[3].kind = "acquire"
  /\ gateRet = GateReturn("acquire", FALSE, NULL)
  /\ gate = gateTrace[1].id

\* C6 -- For every session the first frame written to the socket is
\* server_info, and exactly one server_info is written to it, whatever the
\* gate does afterwards.
C6_ServerInfoFirstOnce ==
  \A s \in Sockets :
    IF sock[s] = "new"
      THEN first[s] = NULL /\ infos[s] = 0
      ELSE first[s] = "server_info" /\ infos[s] = 1

\* a session greeted while the gate was free has had a request run to its
\* chat_end and is served again, the gate busy once more
C6_Witness ==
  \E s \in Sockets :
    /\ sock[s] = "open"
    /\ infos[s] = 1
    /\ wire[s][""] = "ended"
    /\ isBusy(gate) /\ socketMap[s] = "r1"
    /\ written = << <<s, ChatChunkMessage("r1", 1)>> >>

\* C7 as stated -- Every chat_start handled while the gate is held leaves the
\* gate, every session's active request and the generations unchanged and
\* writes exactly one error MODEL_BUSY with its request id to its sender.
C7_BusyRejectsAny ==
  [][\A s \in Sockets, r \in RequestIds, len \in PromptLengths :
       (isBusy(gate) /\ handleChatStart(s, r, len))
         => /\ written' = << <<s, createErrorMessage("MODEL_BUSY", r)>> >>
            /\ UNCHANGED <<gate, socketMap, abortControllers, gens, rejected, wire>>]_vars

\* C7 amended -- A chat_start whose prompt is within MAX_PROMPT_SIZE, handled
\* while the gate is held, leaves the gate, every session's active request,
\* the generations and every request's place on the wire unchanged and writes
\* exactly one error MODEL_BUSY with its request id to its sender.
C7_BusyRejectsSized ==
  [][\A s \in Sockets, r \in RequestIds, len \in PromptLengths :
       (isBusy(gate) /\ len <= MAX_PROMPT_SIZE /\ handleChatStart(s, r, len))
         => /\ written' = << <<s, createErrorMessage("MODEL_BUSY", r)>> >>
            /\ UNCHANGED <<gate, socketMap, abortControllers, gens, rejected, wire>>]_vars

\* a chat_start of one session was turned down with MODEL_BUSY while the
\* generation of another session is running
C7_Witness ==
  /\ handled.op = "handleChatStart"
  /\ written = << <<handled.sock, createErrorMessage("MODEL_BUSY", handled.rid)>> >>
  /\ isBusy(gate) /\ gate # handled.rid
  /\ socketMap[handled.sock] = NULL
  /\ \E g \in Running : gens[g].sock # handled.sock /\ gens[g].rid = gate

\* C8 -- abort{r} on the session whose active request is r: if the provider's
\* abort returns true, chat_end{r, abort} is written, the gate is free and the
\* session has no active request; if it returns false, nothing is written and
\* the gate stays held.
C8_AbortActive ==
  [][\A s \in Sockets, r \in RequestIds :
       (socketMap[s] = r /\ handleAbort(s, r))
         => IF abortReturn(r)
              THEN /\ written' = << <<s, ChatEndMessage(r, "abort")>> >>
                   /\ gate' = NULL
                   /\ socketMap'[s] = NULL
              ELSE /\ written' = <<>>
                   /\ gate' = gate
                   /\ isBusy(gate')]_vars

\* C9 -- abort{r} on a session whose active request is not r changes nothing:
\* no controller is aborted or removed, no frame is written, the gate and
\* every session's active request are unchanged.
C9_StaleAbortIgnored ==
  [][\A s \in Sockets, r \in RequestIds :
       (socketMap[s] # r /\ handleAbort(s, r))
         => /\ written' = <<>>
            /\ UNCHANGED <<gate, socketMap, abortControllers, gens, rejected, wire>>]_vars

\* an abort for the request that another session is running was handled and
\* ignored
C9_Witness ==
  /\ handled.op = "handleAbort"
  /\ written = <<>>
  /\ socketMap[handled.sock] = NULL
  /\ gate = handled.rid
  /\ \E g \in Running :
       /\ gens[g].rid = handled.rid
       /\ gens[g].sock # handled.sock
       /\ socketMap[gens[g].sock] = handled.rid
       /\ abortControllers[handled.rid] = g

\* C10 -- close or error of a socket whose session holds the gate: the
\* provider's abort is called for its request (no controller is left under
\* that id), the gate is free and the session has no active request; close or
\* error of any other socket leaves the gate and the running generations
\* unchanged.
C10_DisconnectCleanup ==
  [][\A s \in Sockets :
       SocketClose(s)
         => IF HoldsGate(s)
              THEN /\ abortControllers'[socketMap[s]] = 0
                   /\ gate' = NULL
                   /\ socketMap'[s] = NULL
              ELSE /\ gate' = gate
                   /\ \A g \in Running : gens'[g] = gens[g]]_vars

\* number of bytes of the prompt's UTF-8 encoding
utf8Length(p) == p.b1 + 2 * p.b2 + 3 * p.b3 + 4 * p.b4

\* C11 -- The validator and the Host accept a chat_start iff the UTF-8 byte
\* length of its prompt is at most MAX_PROMPT_SIZE; the Host answers a longer
\* one with BAD_MESSAGE.
C11_PromptBytes ==
  /\ [](probe.verdict # <<>>
          => (probe.verdict[1].ok <=> utf8Length(probe.prompt) <= MAX_PROMPT_SIZE))
  /\ [][\A s \in Sockets :
          OfferPrompt(s)
            => IF utf8Length(probe.prompt) <= MAX_PROMPT_SIZE
                 THEN gate' = ReuseId /\ socketMap'[s] = ReuseId /\ written' = <<>>
                 ELSE /\ gate' = NULL
                      /\ written' = << <<s, createErrorMessage("BAD_MESSAGE", ReuseId)>> >>]_vars

\* C12 -- Every inbound frame that fails validation makes the Host write
\* exactly one error frame BAD_MESSAGE to its sender, with the frame's
\* request_id when that is a string, and leaves the socket open and the gate
\* and every session's active request unchanged.
C12_InvalidAnswered ==
  [][\A s \in Sockets, raw \in Raws :
       (~validateMessage(raw).ok /\ handleMessage(s, raw))
         => /\ written' = << <<s, createErrorMessage("BAD_MESSAGE",
                                     IF isString(raw.request_id) THEN raw.request_id ELSE NULL)>> >>
            /\ sock'[s] = "open"
            /\ UNCHANGED <<gate, socketMap>>]_vars

\* every code the provider reports
ErrorCodes == HttpErrorCodes \cup FetchErrorCodes \cup {"TIMEOUT_NO_RESPONSE"}

\* the step in which generation g reports on_error(code)
ReportsError(g, code) ==
  \/ FetchHttpError(g, code)
  \/ FetchFailed(g, code)
  \/ /\ AbortCatch
     /\ Head(rejected) = g
     /\ abortControllers[gens[g].rid] # 0
     /\ code = "TIMEOUT_NO_RESPONSE"

\* the request of generation g is the active request of its session and of the gate
IsActive(g) ==
  /\ gens[g] # Returned
  /\ gate = gens[g].rid
  /\ socketMap[gens[g].sock] = gens[g].rid

\* C13 -- When the provider reports on_error(code) for the active request r,
\* the Host writes exactly one frame, error(code) with request_id r, to the
\* session's socket, the gate is free and the session has no active request
\* afterwards, and no generation is started by that step.
C13_ProviderError ==
  [][\A g \in Gens, code \in ErrorCodes :
       (IsActive(g) /\ ReportsError(g, code))
         => /\ written' = << <<gens[g].sock, createErrorMessage(code, gens[g].rid)>> >>
            /\ gate' = NULL
            /\ socketMap'[gens[g].sock] = NULL
            /\ Len(gens') = Len(gens)
            /\ \A h \in Gens : h # g => gens'[h] = gens[h]]_vars

\* a fetch that failed has been reported on the wire of the session that asked,
\* the gate is free again and nothing runs
C13_Witness ==
  \E s \in Sockets, code \in FetchErrorCodes :
    /\ handled.op = "generate"
    /\ written = << <<s, createErrorMessage(code, "r1")>> >>
    /\ sock[s] = "open"
    /\ wire[s]["r1"] = "ended"
    /\ gate = NULL
    /\ socketMap[s] = NULL
    /\ Running = {}

\* C14 -- When the chunk timer of a running generation of request r has fired,
\* the provider reports TIMEOUT_NO_RESPONSE for it: the Host writes exactly one
\* frame, error TIMEOUT_NO_RESPONSE with request_id r, to the session's socket
\* and the gate is free.
C14_ChunkTimeout ==
  [][\A g \in Gens :
       (handled.op = "chunkTimer" /\ rejected = <<g>> /\ AbortCatch)
         => /\ written' = << <<gens[g].sock,
                               createErrorMessage("TIMEOUT_NO_RESPONSE", gens[g].rid)>> >>
            /\ gate' = NULL]_vars

\* C15 -- The server_info timer of a session destroys the socket iff it fires
\* while the server_info write has not been flushed; once the write is flushed
\* the timer never destroys the socket.
C15_InfoTimer ==
  \A s \in Sockets :
    /\ infoTimer[s].destroyed <=> (infoTimer[s].timer = "fired" /\ ~infoTimer[s].flushed)
    /\ infoTimer[s].timer = "fired" => ~infoTimer[s].flushed

\* one session's write was flushed in time and its socket lives on; another's
\* never was, and its timer destroyed the socket
C15_Witness ==
  \E s, u \in Sockets :
    /\ infoTimer[s].flushed /\ infoTimer[s].timer = "cleared" /\ sock[s] = "open"
    /\ ~infoTimer[u].flushed /\ infoTimer[u].timer = "fired"
    /\ infoTimer[u].destroyed /\ sock[u] \in {"destroyed", "closed"}

MAX_CLIENTS == 5

\* C16 -- No more than MAX_CLIENTS sockets are attached at a time; a socket
\* that connects while MAX_CLIENTS are attached is written exactly one error
\* frame CONNECT_FAILED, is not added to the attached set and is not passed to
\* onConnection.
C16_MaxClients ==
  /\ [](getClientCount <= MAX_CLIENTS)
  /\ [][\A q \in Peers :
          (getClientCount = MAX_CLIENTS /\ PeerConnection(q))
            => /\ peers'[q].written = <<createErrorMessage("CONNECT_FAILED", NULL)>>
               /\ q \notin server'.connectedSockets
               /\ peers'[q].onConnection = 0]_vars

\* C17 -- When the only shutdown asked for so far completes, no generation is
\* running and the gate is free, no socket is open and none is attached, and
\* the server reports not running with its topic left.
C17_ShutdownClean ==
  [][\A i \in 1..MaxStarts + MaxStops :
       (server.stops = 1 /\ stopReturns(i))
         => /\ Running' = {}
            /\ gate' = NULL
            /\ \A s \in Sockets : sock'[s] # "open"
            /\ server'.connectedSockets = {}
            /\ server'.swarm = 0
            /\ \A n \in 1..Len(server'.hyper) : ~server'.hyper[n].joined]_vars

\* a Hyperswarm instance is joined to its topic
Joined == \E n \in 1..Len(server.hyper) : server.hyper[n].joined

\* C18 -- stop() on a server that is not running changes nothing; and once
\* every start() and stop() call has returned, however the calls overlapped,
\* isRunning() is true iff a swarm is joined: a server started after the first
\* of two overlapping stops is not cleared by the second.
C18_StopIdempotent ==
  /\ [][(server.swarm = 0 /\ SwarmStop)
          => /\ server' = [server EXCEPT !.stops = @ + 1]
             /\ peers' = peers]_vars
  /\ [](server.calls = <<>> => (isRunning <=> Joined))

\* C19 as stated -- When the whole stream has been written, in whatever
\* chunks, the decoder has delivered exactly the messages sent, in order.
C19_RoundTripAnySplit ==
  codec.rest = <<>> => codec.delivered = codec.msgs

\* C19 amended -- When the whole stream has been written in chunks none of
\* which took the buffer over MAX_BUFFER_SIZE code units, the decoder has
\* delivered exactly the messages sent, in order.
C19_RoundTripWithinBuffer ==
  (codec.rest = <<>> /\ codec.signals = 0) => codec.delivered = codec.msgs

\* two messages, one with a line feed and one with a long run in its text,
\* came through writes that cut frames in the middle
C19_Witness ==
  /\ codec.rest = <<>>
  /\ codec.signals = 0
  /\ Len(codec.msgs) = 2
  /\ codec.delivered = codec.msgs
  /\ \E i \in 1..Len(codec.msgs[1]) : codec.msgs[1][i] = "NL"
  /\ \E i \in 1..Len(codec.msgs[2]) : codec.msgs[2][i] = "RUN"
  /\ codec.writes > Len(encodeAll(codec.msgs)) - 2

\* number of bytes of a string's UTF-8 encoding
RECURSIVE utf8Bytes(_)
utf8Bytes(str) ==
  IF str = <<>> THEN 0
  ELSE (CASE Head(str) = "RUN" -> RunLength
          [] Head(str) = "EUROS" -> 3 * EuroLength
          [] OTHER -> 1) + utf8Bytes(Tail(str))

\* C20 -- Buffer bound: after a write returns the reassembly buffer holds at
\* most MAX_BUFFER_SIZE bytes; bytes without a line feed beyond that have
\* been discarded.
C20_BufferBound ==
  utf8Bytes(codec.buffer) <= MAX_BUFFER_SIZE

\* the whole stream has been written to the decoder
Drained == codec.rest = <<>>

C25_StatusAtAttach ==
  [][\A s \in Sockets :
       onConnection(s)
         => /\ Len(written') = 1
            /\ written'[1][1] = s
            /\ written'[1][2].type = "server_info"
            /\ written'[1][2].arg = (IF gate # NULL THEN "busy" ELSE "ready")
            /\ written'[1][2].host_name = config.hostName
            /\ written'[1][2].model = config.model]_vars

\* a session was attached while another one held the gate and after the
\* model had been changed: it was told busy and the new model
C25_Witness ==
  /\ handled.op = "handleConnection"
  /\ Len(written) = 1
  /\ written[1][2].arg = "busy"
  /\ written[1][2].model = "mistral"
  /\ \E s \in Sockets : s # handled.sock /\ socketMap[s] = gate /\ gate # NULL

\* C26 -- After a session's disconnect has been handled, the Host writes no
\* further frame to that socket, whatever the provider does afterwards.
C26_NoWriteAfterClose ==
  [][\A i \in 1..Len(written') : sock[written'[i][1]] # "closed"]_vars

\* C27 -- On the Host the gate is acquired and a generation is started only
\* by a chat_start that passes the validator (string request_id, string
\* prompt within the size limit); handling any other frame leaves the gate
\* as it was, or released, and starts no generation.
C27_ValidatedBeforeRouted ==
  [][\A s \in Sockets, raw \in Raws :
       (handleMessage(s, raw) /\ (gate' \notin {gate, NULL} \/ Len(gens') > Len(gens)))
         => validateMessage(raw).ok]_vars

\* C30 -- Every handler that acquires or releases the gate notifies the
\* status-change observer: when such a handler has finished, the state shown
\* to the operator is "busy" iff the gate is held while the server is running.
\* (stopServer is left out: it is still awaiting SwarmServer.stop.)
C30_BusyShownIffGateHeld ==
  [][(app # <<>> /\ gate' # gate /\ handled'.op # "stopServer")
       => (app'[1].state = "busy" <=> (isBusy(gate') /\ server'.swarm # 0))]_vars

\* C28 -- onOllamaUnreachable is invoked in a step iff the provider reports
\* an error with code OLLAMA_NOT_FOUND in that step; in that case the Host
\* still writes the error frame with that code and the request_id to the
\* client, and the gate is free afterwards.
C28_UnreachableEscalation ==
  /\ [][app'[1].unreachable # app[1].unreachable
          <=> \E g \in Gens : ReportsError(g, "OLLAMA_NOT_FOUND")]_vars
  /\ [][\A g \in Gens :
          ReportsError(g, "OLLAMA_NOT_FOUND")
            => /\ written' = << <<gens[g].sock,
                                  createErrorMessage("OLLAMA_NOT_FOUND", gens[g].rid)>> >>
               /\ ~isBusy(gate')]_vars

\* the timer startTimeout sets at time now for request rid
TimerFor(rid, now) == << [requestId |-> rid, due |-> now + CLIENT_TIMEOUT_MS, ran |-> FALSE] >>

\* C22 -- sendChatStart is rejected locally (no line written, active request
\* and timer unchanged) iff the prompt is empty after trim, its UTF-8 byte
\* length exceeds MAX_PROMPT_SIZE, or a request is already active; otherwise
\* exactly one chat_start with a request id never made before is written,
\* that request becomes the active one and the timer is armed for it.
C22_SendChatStart ==
  [][\A prompt \in ClientPrompts, random \in Randoms :
       CallSendChatStart(prompt, random)
         => LET c == client[1]
                d == client'[1]
            IN IF \/ length(trim(prompt)) = 0
                  \/ utf8Length(trim(prompt)) > MAX_PROMPT_SIZE
                  \/ c.activeRequestId # NULL
                 THEN /\ d.sent = <<>>
                      /\ ~d.ret[1].ok
                      /\ d.activeRequestId = c.activeRequestId
                      /\ d.timeoutId = c.timeoutId
                 ELSE /\ Len(d.sent) = 1
                      /\ d.sent[1].type = "chat_start"
                      /\ d.sent[1].request_id \notin c.used
                      /\ d.ret[1].ok
                      /\ d.activeRequestId = d.sent[1].request_id
                      /\ d.timeoutId = TimerFor(d.activeRequestId, c.clock)]_vars

\* C23 -- A chat_chunk for the active request restarts the client's timer,
\* which is then due CLIENT_TIMEOUT_MS after that chunk; when the timer fires
\* while its request is still active, the client surfaces a timeout for that
\* request with TIMEOUT_NO_RESPONSE, clears the active request and the timer,
\* writes nothing and makes no call that closes the transport.
C23_ClientTimer ==
  /\ [][LET raw == Raw("chat_chunk", client[1].activeRequestId,
                        Payload(TRUE, <<>>, {"chat_chunk"}))
        IN (validateMessage(raw).ok /\ Incoming(raw))
             => /\ client'[1].timeoutId = TimerFor(raw.request_id, client[1].clock)
                /\ client'[1].activeRequestId = client[1].activeRequestId]_vars
  /\ [][(TimeoutFires /\ client[1].timeoutId[1].requestId = client[1].activeRequestId)
          => /\ client'[1].events =
                  << Event("onEvent", "timeout", client[1].activeRequestId, NULL),
                     Event("onConnectionState", "error", NULL,
                           "TIMEOUT_NO_RESPONSE: No response for 30 seconds") >>
             /\ client'[1].activeRequestId = NULL
             /\ client'[1].timeoutId = <<>>
             /\ client'[1].sent = <<>>
             /\ client'[1].calls = <<>>]_vars

\* the request made at time 0 got a chunk CLIENT_TIMEOUT_MS later and has just
\* timed out, another CLIENT_TIMEOUT_MS later
C23_Witness ==
  /\ client # <<>>
  /\ client[1].clock = 2 * CLIENT_TIMEOUT_MS
  /\ client[1].used = {makeRequestId(0, 0)}
  /\ Len(client[1].events) = 2
  /\ client[1].events[1] = Event("onEvent", "timeout", makeRequestId(0, 0), NULL)
  /\ client[1].activeRequestId = NULL
  /\ client[1].calls = <<>>

\* C24 -- abort with a request active writes exactly one abort line with the
\* active request id and clears the active request and its timer at once, so
\* that a sendChatStart that follows with a prompt of legal size is accepted;
\* with no request active it writes nothing and changes nothing.
C24_ClientAbort ==
  /\ [][CallAbort
          => LET c == client[1]
                 d == client'[1]
             IN IF c.activeRequestId # NULL
                  THEN /\ d.sent = << Line("abort", c.activeRequestId, <<>>) >>
                       /\ d.activeRequestId = NULL
                       /\ d.timeoutId = <<>>
                  ELSE /\ d.sent = <<>>
                       /\ d.events = <<>>
                       /\ d.activeRequestId = NULL
                       /\ d.timeoutId = c.timeoutId
                       /\ d.used = c.used]_vars
  /\ [][\A prompt \in ClientPrompts, random \in Randoms :
          ( /\ Len(client[1].sent) = 1
            /\ client[1].sent[1].type = "abort"
            /\ length(trim(prompt)) \in 1..MAX_PROMPT_SIZE
            /\ CallSendChatStart(prompt, random) )
            => /\ client'[1].ret[1].ok
               /\ Len(client'[1].sent) = 1
               /\ client'[1].sent[1].type = "chat_start"]_vars

\* the abort of the only request made so far has just been written
C24_Witness ==
  /\ client # <<>>
  /\ Cardinality(client[1].used) = 1
  /\ \E rid \in client[1].used : client[1].sent = << Line("abort", rid, <<>>) >>
  /\ client[1].activeRequestId = NULL
  /\ client[1].timeoutId = <<>>

\* C29 -- A chat_end or error frame clears the client's active request and
\* timer iff its request_id equals the active request id; a terminal for any
\* other id leaves the active request and its timer untouched; the terminal
\* is surfaced either way.
C29_TerminalForActive ==
  [][\A raw \in Inbound(client[1]) :
       ( /\ raw.type \in {"chat_end", "error"}
         /\ validateMessage(raw).ok
         /\ Incoming(raw) )
         => LET c == client[1]
                d == client'[1]
            IN /\ d.events = << Event("onEvent", raw.type, raw.request_id, NULL) >>
               /\ IF raw.request_id = c.activeRequestId
                    THEN d.activeRequestId = NULL /\ d.timeoutId = <<>>
                    ELSE d.activeRequestId = c.activeRequestId /\ d.timeoutId = c.timeoutId]_vars

\* C37 -- When the catch block of a cancelled generation runs after its
\* request id was reused by a newer chat_start (the abort handle under that
\* id belongs to the newer generation), it reports no timeout: it writes
\* nothing and leaves the newer generation's abort handle, the gate and the
\* sessions' active requests as they are.
C37_ReuseAfterAbort ==
  [][(/\ AbortCatch
      /\ abortControllers[gens[Head(rejected)].rid] \notin {0, Head(rejected)})
       => /\ written' = <<>>
          /\ UNCHANGED <<abortControllers, gate, socketMap>>]_vars

\* C35 -- No orphaned gate: whenever the gate is held, exactly one session
\* records the gate's request id as its active request and that session's
\* socket has not been disconnected; whenever the gate is free, no session
\* records an active request.
C35_NoOrphanedGate ==
  IF isBusy(gate)
    THEN /\ Cardinality({s \in Sockets : socketMap[s] = gate}) = 1
         /\ \A s \in Sockets : socketMap[s] = gate => sock[s] # "closed"
    ELSE \A s \in Sockets : socketMap[s] = NULL

\* generation g has not returned and the adapter no longer holds its abort
\* handle: its request was aborted, or ended by another generation's callback
Late(g) == gens[g] # Returned /\ abortControllers[gens[g].rid] # g

\* the step in which the provider calls a callback of generation g, if any
CallsBack(g) ==
  \/ StreamChunk(g)
  \/ StreamDone(g)
  \/ \E code \in HttpErrorCodes : FetchHttpError(g, code)
  \/ \E code \in FetchErrorCodes : FetchFailed(g, code)
  \/ AbortCatch /\ Head(rejected) = g

\* C36 -- A late provider callback, one of a generation whose request was
\* already aborted or terminated, writes no frame, clears no session's
\* active request and does not release the gate.
C36_LateCallbackHarmless ==
  [][\A g \in Gens :
       (Late(g) /\ CallsBack(g))
         => /\ written' = <<>>
            /\ UNCHANGED <<gate, socketMap>>]_vars

\* C33 -- The provider calls back at most one terminal per generation,
\* whatever the order of abort(r) and the chunk timer: the catch block of a
\* generation cancelled by abort(r) calls no on_error, the catch block of a
\* generation cancelled by its chunk timer calls on_error(TIMEOUT_NO_RESPONSE)
\* exactly once, the coroutine returns with its terminal callback, and an
\* abort handle that abort(r) has taken never comes back for that generation.
C33_OneTerminalCallback ==
  /\ [][(AbortCatch /\ handled.op # "chunkTimer") => written' = <<>>]_vars
  /\ [][\A g \in Gens :
          (AbortCatch /\ handled.op = "chunkTimer" /\ rejected = <<g>>)
            => written' = << <<gens[g].sock,
                               createErrorMessage("TIMEOUT_NO_RESPONSE", gens[g].rid)>> >>]_vars
  /\ [][\A g \in Gens :
          (\/ StreamDone(g)
           \/ \E code \in ErrorCodes : ReportsError(g, code))
            => gens'[g] = Returned]_vars
  /\ [][\A r \in RequestIds :
          abortControllers'[r] # abortControllers[r]
            => abortControllers'[r] \notin 1..Len(gens)]_vars

\* C31 -- The chat_chunk and terminal frames of request r are written only to
\* the session on which a chat_start r was accepted, never to another session,
\* and the provider's k-th text line of a generation is written, alone, as
\* the chat_chunk with text k to the session that started the generation.
C31_FramesToOwner ==
  /\ [][\A i \in 1..Len(written') :
          (written'[i][2].type = "chat_chunk" \/ IsTerminal(written'[i][2]))
            => wire[written'[i][1]][written'[i][2].request_id] # "idle"]_vars
  /\ [][\A g \in Gens :
          StreamChunk(g)
            => /\ wire[gens[g].sock][gens[g].rid] # "idle"
               /\ written' = << <<gens[g].sock,
                                  ChatChunkMessage(gens[g].rid, gens'[g].n)>> >>
               /\ gens'[g].n = gens[g].n + 1]_vars

\* session 2 has received the second chat_chunk of its request while session 1
\* is connected
C31_Witness ==
  /\ sock[1] = "open"
  /\ written = << <<2, ChatChunkMessage("r1", 2)>> >>
  /\ socketMap[2] = "r1"

\* the state of session s as the session state machine names it
SessionState(s) ==
  CASE sock[s] = "new" -> "Unborn"
    [] sock[s] \in {"closed", "destroyed"} -> "Closed"
    [] socketMap[s] # NULL -> "Generating"
    [] ~infoTimer[s].delivered -> "AwaitingInfoFlush"
    [] OTHER -> "Idle"

SessionTransitions ==
  {<<"Unborn", "AwaitingInfoFlush">>, <<"AwaitingInfoFlush", "Idle">>,
   <<"AwaitingInfoFlush", "Closed">>, <<"Idle", "Generating">>,
   <<"Generating", "Idle">>, <<"Idle", "Closed">>, <<"Generating", "Closed">>}

\* the step accepts a chat_start of session s: generate() is called for it
Accepts(s) == Len(gens') > Len(gens) /\ gens'[Len(gens')].sock = s

ProviderStep ==
  \/ \E g \in Gens : FetchOk(g)
  \/ \E g \in Gens, code \in HttpErrorCodes : FetchHttpError(g, code)
  \/ \E g \in Gens, code \in FetchErrorCodes : FetchFailed(g, code)
  \/ \E g \in Gens : StreamDone(g)
  \/ \E g \in Gens : ChunkTimeout(g)
  \/ AbortCatch

\* peers that reuse one request id, abort and disconnect
NextLive ==
  \/ \E s \in Sockets : handleConnection(s)
  \/ \E s \in Sockets : MayOffer(ReuseId, 1) /\ handleChatStart(s, ReuseId, 1)
  \/ \E s \in Sockets : handleAbort(s, ReuseId)
  \/ \E s \in Sockets : SocketClose(s)
  \/ \E g \in Gens : MayChunk(g) /\ StreamChunk(g)
  \/ ProviderStep

\* The provider ends, fails or times out every generation, and the event loop
\* runs every pending catch block.
SpecLive == Init /\ [][NextLive]_vars /\ WF_vars(ProviderStep)

\* C34 -- Whenever the gate is held, it is free at some later moment, also
\* when the holder aborts or its socket closes during the generation.
C34_GateEventuallyFree == isBusy(gate) ~> ~isBusy(gate)

\* the socket of session 1 closed during its generation, the catch block of
\* the generation has run and the gate is free
C34_Witness ==
  /\ sock[1] = "closed"
  /\ Len(gens) = 1
  /\ gens[1] = Returned
  /\ handled.op = "generate"
  /\ written = <<>>
  /\ ~isBusy(gate)

\* the client has a timer that is set, not cleared and has not run
Armed(c) == c.timeoutId # <<>> /\ ~c.timeoutId[1].ran

\* C38 -- The client's armed timer is always the one timer of its active
\* request: a request that ended by a terminal frame, abort or disconnect
\* leaves no timer behind.  A timeout is surfaced only by the timer callback
\* and only for the request that is active when it runs, and a timer whose
\* request is no longer the active one surfaces nothing and leaves the active
\* request alone.
C38_TimerOfActiveRequest ==
  /\ [](client # <<>> /\ Armed(client[1])
          => client[1].timeoutId[1].requestId = client[1].activeRequestId)
  /\ [][(client # <<>> /\ client'[1].events # client[1].events)
          => \A i \in 1..Len(client'[1].events) :
               client'[1].events[i].type = "timeout"
                 => /\ client[1].activeRequestId # NULL
                    /\ client'[1].events[i].requestId = client[1].activeRequestId
                    /\ Armed(client[1])
                    /\ client[1].clock >= client[1].timeoutId[1].due
                    /\ TimeoutFires]_vars
  /\ [][(/\ client # <<>>
         /\ Armed(client[1])
         /\ client[1].timeoutId[1].requestId # client[1].activeRequestId
         /\ TimeoutFires)
          => /\ client'[1].events = <<>>
             /\ client'[1].activeRequestId = client[1].activeRequestId]_vars

\* the first request ended with a frame from the Host; the second one was sent
\* at the moment the first one's timer would have been due, and is active
\* with its own timer
C38_Witness ==
  /\ client # <<>>
  /\ client[1].used = {makeRequestId(0, 0), makeRequestId(CLIENT_TIMEOUT_MS, 0)}
  /\ client[1].clock = CLIENT_TIMEOUT_MS
  /\ client[1].activeRequestId = makeRequestId(CLIENT_TIMEOUT_MS, 0)
  /\ client[1].timeoutId = TimerFor(makeRequestId(CLIENT_TIMEOUT_MS, 0), CLIENT_TIMEOUT_MS)
  /\ client[1].events = <<>>

\* C39 -- On the one connected session, a chat_start that the Host dispatches
\* right after the abort that the client sent for its active request is never
\* answered with MODEL_BUSY.
C39_AbortThenStart ==
  [][(/\ client # <<>>
      /\ handled.op = "handleAbort"
      /\ client[1].sent # <<>>
      /\ client[1].sent[1].type = "chat_start"
      /\ SessionDispatch)
       => \A i \in 1..Len(written') : written'[i][2].arg # "MODEL_BUSY"]_vars

\* C39, amended -- When the Host dispatches the client's abort while it holds
\* that request as the session's active one, it frees the gate and answers
\* chat_end with reason abort; and a chat_start that it dispatches right after
\* an abort it answered so is accepted, not answered with MODEL_BUSY.
C39_AbortThenStartOfHostRequest ==
  /\ [][(/\ client # <<>>
         /\ client[1].sent # <<>>
         /\ client[1].sent[1].type = "abort"
         /\ socketMap[1] = client[1].sent[1].request_id
         /\ SessionDispatch)
          => /\ gate' = NULL
             /\ socketMap'[1] = NULL
             /\ written' = << <<1, ChatEndMessage(client[1].sent[1].request_id, "abort")>> >>]_vars
  /\ [][(/\ client # <<>>
         /\ handled.op = "handleAbort"
         /\ written = << <<1, ChatEndMessage(handled.rid, "abort")>> >>
         /\ client[1].sent # <<>>
         /\ client[1].sent[1].type = "chat_start"
         /\ SessionDispatch)
          => /\ written' = <<>>
             /\ gate' = client[1].sent[1].request_id
             /\ socketMap'[1] = client[1].sent[1].request_id
             /\ Len(gens') = Len(gens) + 1]_vars

\* the Host has accepted the chat_start that the client sent right after the
\* abort of its first request, before the catch block of the first generation ran
C39_Witness ==
  /\ client # <<>>
  /\ Len(gens) = 2
  /\ gens[1].st = "aborted"
  /\ rejected = <<1>>
  /\ handled = Callback("handleChatStart", 1, client[1].activeRequestId)
  /\ gate = client[1].activeRequestId
  /\ Cardinality(client[1].used) = 2

====
